---- MODULE Spec2Model ----
(***************************************************************************)
(* Document-assembly pipeline of tgbotq: image generation through the      *)
(* DeAPI submit/poll protocol (image_ai.py), the Uzbek->English            *)
(* translation step (image_convert.py), marker substitution, and the       *)
(* cleanup, body assembly, document build and send_referat handler of      *)
(* main.py.                                                                *)
(*                                                                         *)
(* Strings are sequences of tokens.  One token is one character class or   *)
(* one fixed piece of text: " " a run of blanks, "\n" a line break,        *)
(* "http://" a URL scheme, "RASM" the marker keyword, and so on.           *)
(* Python values are records [t, s]: t the type ("none", "str", "obj" a    *)
(* truthy non-string such as a non-empty dict or a number, "zero" a falsy  *)
(* non-string such as 0 or []), s the token sequence of a string.          *)
(***************************************************************************)
EXTENDS Integers, Sequences, FiniteSets, TLC

VARIABLES
    DEAPI_TOKEN,   \* TRUE iff the module global DEAPI_TOKEN is a non-empty string
    service,       \* behaviour of the remote generation service during this run
    gpc,           \* position inside generate_image_url_from_prompt
    prompt,        \* argument of the current generate_image_url_from_prompt call
    job_attempt,   \* loop variable of generate_image_url_from_prompt (1..MAX_JOBS)
    request_id,    \* request id the current job was created with
    attempt,       \* loop variable of _deapi_poll_result (0..max_attempts-1)
    genReturn,     \* value returned by generate_image_url_from_prompt
    genRaised,     \* TRUE iff an exception escaped generate_image_url_from_prompt
    nSubmit,       \* POST /txt2img requests sent during the call
    nPoll,         \* GET /request-status requests sent during the call
    nSleep,        \* time.sleep calls made during the call
    status_url,    \* _deapi_poll_result: the address it polls
    polledUrl,     \* the address of the latest GET /request-status request
    lastPoll,      \* the result and the status of the status response in hand,
                   \*   NoPoll once the call has gone on to its next step
    nJobPoll,      \* GET /request-status requests sent for the current job
    nJobSleep,     \* time.sleep calls made for the current job
    GROQ_API_KEY,  \* TRUE iff the module global GROQ_API_KEY is a non-empty string
    trPc,          \* position of the _translate_uz_to_en call: "idle" or "done"
    trText,        \* argument of _translate_uz_to_en
    trResp,        \* response of the translation service to the call, if one was sent
    trReturn,      \* value returned by _translate_uz_to_en
    trRaised,      \* TRUE iff an exception escaped _translate_uz_to_en
    trCalls,       \* POST requests sent to the translation service
    variant,       \* the module whose inject_ai_images_into_content runs:
                   \*   "image_ai" or "image_convert" (which translates first)
    injPc,         \* position inside inject_ai_images_into_content
    raw,           \* its argument
    pos,           \* re.sub: index in raw where the search for a marker goes on
    out,           \* re.sub: the result built so far
    cur,           \* the match _replace is working on
    prompts,       \* prompts handed to generate_image_url_from_prompt so far
    hpc,           \* position inside handle_send_referat
    request,       \* the request body it handles
    response,      \* HTTP status of its response, 0 before there is one
    hRaised,       \* TRUE iff an exception escaped handle_send_referat
    file_path,     \* its local file_path
    title_html,    \* build_word_doc_file: the cover page
    body_html,     \* build_word_doc_file: the body
    fileExists,    \* TRUE iff the file tempfile.mkstemp created is on disk
    fileContent,   \* what that file holds
    buildResult,   \* "none", "returned" or "raised": how build_word_doc_file ended
    buildError,    \* what raised: "type", "substitution", "mkstemp" or "write"
    sentDocs,      \* the documents bot.send_document delivered
    cleanup,       \* the finally block: "removed", "failed" or "skipped"
    apc,           \* body assembly: "idle", "once" or "twice" (times it was applied)
    asmContent,    \* the content the body was assembled from
    with_images,   \* build_word_doc_file: the cleaned content with its image blocks
    asmBody,       \* the body assembled from asmContent
    asmAgain,      \* the body assembled from asmBody
    orderStatus,   \* orders.status of the order
    cancelPc,      \* btn_cancel: "start", "set" or "done"
    cancelRow,     \* btn_cancel: the row it found, "order" or "none"
    photoPc,       \* photo_handler: "start", "attach", "notify" or "done"
    photoRow,      \* photo_handler: the row it found, "order" or "none"
    keyboard,      \* the admin has the message with the buttons of the order
    approvePc,     \* admin_approve_handler of each click: "start", "set", "main",
                   \* "backup" or "done"
    approveOrder,  \* admin_approve_handler: the status each click read, or "none"
    file_sent,     \* admin_approve_handler: file_sent of each click
    copyCalls,     \* the bot.copy_message calls of each click: <<channel, sent>>
    copies,        \* number of copies of the file the buyer got
    rejectPc,      \* admin_reject_handler: "start", "set" or "done"
    rejectOrder,   \* admin_reject_handler: the status it read, or "none"
    file_row,      \* the files row of the order
    orders,        \* orders.status of the orders of one user, by order id
    buyPc,         \* on_buy_callback of each BUY callback: "start", "create" or "done"
    buyerCancelPc, \* btn_cancel on these orders: "start", "set" or "done"
    buyerCancelId, \* btn_cancel: the id of the order it found, 0 for none
    buyerPhotoPc,  \* photo_handler on these orders: "start", "attach" or "done"
    buyerPhotoId,  \* photo_handler: the id of the order it found, 0 for none
    nOther,        \* other updates and requests the event loop has handled
    ADMIN_SEND_TARGET,          \* {} or {user id}: the entry of the admin in the dict
    ADMIN_BROADCAST_MODE,       \* TRUE iff the admin is in the set
    ADMIN_PANEL_MODE,           \* TRUE iff the admin is in the set
    ADMIN_WAITING_TARGET_USER,  \* TRUE iff the admin is in the set
    msgNo,         \* messages admin_forward_message has got
    msgKind,       \* kind of the last of them
    sendLog,       \* copies attempted to one user: <<message, user id>>
    bcPc,          \* position of the broadcast loop
    bcMsg,         \* message the loop copies
    bcUsers,       \* user ids the loop read from the users table
    bcTried,       \* user ids a copy was attempted for, in order
    bcSent,        \* the counter sent of the loop
    bcReport,      \* <<total, sent, failed>> once reported
    usersTable,    \* user ids in the users table
    lastClear,     \* what the last exit from the panel or entry to it found armed
    pollResp,      \* a status response handed to one iteration of _deapi_poll_result
    pollOut        \* what the iteration did on it

genVars == <<DEAPI_TOKEN, service, gpc, prompt, job_attempt, request_id, attempt,
             genReturn, genRaised, nSubmit, nPoll, nSleep, status_url, polledUrl,
             lastPoll, nJobPoll, nJobSleep>>

trVars == <<GROQ_API_KEY, trPc, trText, trResp, trReturn, trRaised, trCalls>>

injVars == <<variant, injPc, raw, pos, out, cur, prompts>>

refVars == <<hpc, request, response, hRaised, file_path, title_html, body_html, fileExists,
             fileContent, buildResult, buildError, sentDocs, cleanup>>

asmVars == <<apc, asmContent, with_images, asmBody, asmAgain>>

ordVars == <<orderStatus, cancelPc, cancelRow, photoPc, photoRow, keyboard, approvePc,
             approveOrder, file_sent, copyCalls, copies, rejectPc, rejectOrder, file_row>>

buyVars == <<orders, buyPc, buyerCancelPc, buyerCancelId, buyerPhotoPc, buyerPhotoId>>

loopVars == <<nOther>>

admVars == <<ADMIN_SEND_TARGET, ADMIN_BROADCAST_MODE, ADMIN_PANEL_MODE,
             ADMIN_WAITING_TARGET_USER, msgNo, msgKind, sendLog, bcPc, bcMsg, bcUsers,
             bcTried, bcSent, bcReport, usersTable, lastClear>>

pollVars == <<pollResp, pollOut>>

botVars == <<buyVars, loopVars, admVars, pollVars>>

vars == <<genVars, trVars, injVars, refVars, asmVars, ordVars, botVars>>

-----------------------------------------------------------------------------
(* Python values and strings *)

None_ == [t |-> "none", s |-> <<>>]

Str(s) == [t |-> "str", s |-> s]

Obj == [t |-> "obj", s |-> <<>>]

Zero == [t |-> "zero", s |-> <<>>]

\* a number with a fraction, 1.2
Float == [t |-> "float", s |-> <<"1", ".", "2">>]

\* bool(v): None, "", 0, [] and {} are falsy
Truthy(v) == \/ v.t \in {"obj", "float"}
             \/ v.t = "str" /\ v.s # <<>>

\* a or b
PyOr(a, b) == IF Truthy(a) THEN a ELSE b

IsSpace(c) == c \in {" ", "\n"}

RECURSIVE LStrip(_)
LStrip(s) == IF s # <<>> /\ IsSpace(Head(s)) THEN LStrip(Tail(s)) ELSE s

RECURSIVE RStrip(_)
RStrip(s) == IF s # <<>> /\ IsSpace(s[Len(s)])
                THEN RStrip(SubSeq(s, 1, Len(s) - 1))
                ELSE s

\* str.strip()
Strip(s) == RStrip(LStrip(s))

LowerTok(c) == CASE c = "HTTP://"  -> "http://"
                 [] c = "HTTPS://" -> "https://"
                 [] OTHER          -> c

\* str.lower()
Lower(s) == [i \in 1..Len(s) |-> LowerTok(s[i])]

PLACEHOLDER_URL == Str(<<"https://", "via.placeholder.com">>)

MAX_JOBS == 5

max_attempts == 12

\* _is_http_url raises AttributeError when value is truthy and has no .strip()
is_http_url_raises(value) == Truthy(value) /\ value.t # "str"

_is_http_url(value) ==
    /\ Truthy(value)
    /\ value.t = "str"
    /\ LET v == Lower(Strip(value.s))
       IN  v # <<>> /\ Head(v) \in {"http://", "https://"}

-----------------------------------------------------------------------------
(* The remote generation service *)

UrlA == Str(<<"http://", "a">>)

UrlPadded == Str(<<" ", "HTTPS://", "b", " ">>)

Base64 == Str(<<"data:", "x">>)

\* values a result field of a status response can hold
FieldValues == {None_, Str(<<>>), Str(<<" ">>), UrlA, UrlPadded, Base64, Obj, Zero}

\* values the request_id member of a submit response can hold
RequestIdValues == {None_, Str(<<>>), Str(<<"id">>), Obj, Zero}

InProgress == {"pending", "processing", "queued", "running"}

Statuses == InProgress \cup {"succeeded", "failed", "none"}

NoFields == [status |-> "none", result_url |-> None_, result |-> None_,
             preview |-> None_, request_id |-> None_]

\* Responses that carry no usable JSON object:
\*   transport     requests raises (connection error, timeout)
\*   http_error    raise_for_status raises (non-2xx)
\*   bad_json      resp.json() raises
\*   non_dict      the JSON value is not an object (a list, a string)
\*   data_non_dict the "data" member is a truthy non-object
\*   data_null     the "data" member is absent, null or empty
Failure(k) == [kind |-> k] @@ NoFields

FailureKinds == {"transport", "http_error", "bad_json", "non_dict", "data_non_dict"}

SubmitOk(rid) == [NoFields EXCEPT !.request_id = rid] @@ [kind |-> "ok"]

StatusOk(st, ru, r, p) ==
    [kind |-> "ok", status |-> st, result_url |-> ru, result |-> r,
     preview |-> p, request_id |-> None_]

AllSubmitResponses ==
    {Failure(k) : k \in FailureKinds \cup {"data_null"}}
        \cup {SubmitOk(rid) : rid \in RequestIdValues}

AllPollResponses ==
    {Failure(k) : k \in FailureKinds \cup {"data_null"}}
        \cup {StatusOk(st, ru, r, p) :
                st \in Statuses, ru \in FieldValues, r \in FieldValues, p \in FieldValues}

Services == {"arbitrary", "always_processing", "ready", "unreachable"}

SubmitResponses(svc) ==
    CASE svc = "arbitrary"         -> AllSubmitResponses
      [] svc = "always_processing" -> {SubmitOk(Str(<<"id">>))}
      [] svc = "ready"             -> {SubmitOk(Str(<<"id">>))}
      [] svc = "unreachable"       -> {Failure("transport")}

\* Answers to the status poll of a job that was polled n times before.  The
\* "ready" service finishes a job between its first and its second poll.
PollResponses(svc, n) ==
    CASE svc = "arbitrary"         -> AllPollResponses
      [] svc = "always_processing" -> {StatusOk("processing", None_, None_, None_)}
      [] svc = "ready"             -> IF n = 0
                                         THEN {StatusOk("queued", None_, None_, None_)}
                                         ELSE {StatusOk("succeeded", UrlA, None_, None_)}
      [] svc = "unreachable"       -> {Failure("transport")}

-----------------------------------------------------------------------------
(* image_ai.py: _deapi_txt2img_request, _deapi_poll_result *)

\* The request id _deapi_txt2img_request returns for a response, None_ for
\* every failure: an exception inside the try block, or a falsy request_id.
SubmitOutcome(resp) ==
    IF resp.kind \in FailureKinds THEN None_
    ELSE IF resp.kind = "data_null" THEN None_
    ELSE IF ~Truthy(resp.request_id) THEN None_
    ELSE resp.request_id

\* d.get("result_url") or d.get("result") or d.get("preview")
ResultField(resp) == PyOr(PyOr(resp.result_url, resp.result), resp.preview)

Return(v) == [act |-> "return", value |-> v]

SleepAndContinue == [act |-> "sleep", value |-> None_]

\* The mutant returns whatever the result field holds, unchecked.
PollOutcomeUnchecked(resp) ==
    IF resp.kind \in FailureKinds THEN Return(None_)
    ELSE IF resp.kind = "data_null" THEN Return(None_)
    ELSE IF Truthy(ResultField(resp)) THEN Return(ResultField(resp))
    ELSE IF resp.status \in InProgress THEN SleepAndContinue
    ELSE Return(None_)

\* The mutant looks at the status first: a job still in progress is polled
\* again, whatever result came with the status.
PollOutcomeStatusFirst(resp) ==
    IF resp.kind \in FailureKinds THEN Return(None_)
    ELSE IF resp.kind = "data_null" THEN Return(None_)
    ELSE IF resp.status \in InProgress THEN SleepAndContinue
    ELSE IF is_http_url_raises(ResultField(resp)) THEN Return(None_)
    ELSE IF _is_http_url(ResultField(resp)) THEN Return(ResultField(resp))
    ELSE Return(None_)

\* One iteration of the loop of _deapi_poll_result on a response: leave the
\* function with a value, or sleep and go on with the next iteration.
PollOutcome(resp) ==
    IF resp.kind \in FailureKinds THEN Return(None_)          \* except Exception
    ELSE IF resp.kind = "data_null" THEN Return(None_)        \* d = {}: status None
    ELSE LET result_url == ResultField(resp)
         IN  IF is_http_url_raises(result_url) THEN Return(None_)  \* except Exception
             ELSE IF _is_http_url(result_url) THEN Return(result_url)
             ELSE IF resp.status \in InProgress THEN SleepAndContinue
             ELSE Return(None_)

NoStatusResponse == [kind |-> "none"] @@ NoFields

NoOutcome == [act |-> "none", value |-> None_]

\* lines 94-126: the iteration that gets the status response pollResp
PollOnce ==
    /\ pollOut = NoOutcome
    /\ pollOut' = PollOutcome(pollResp)
    /\ UNCHANGED pollResp

PollIdle ==
    /\ pollResp = NoStatusResponse
    /\ pollOut = NoOutcome

ArbitrarySubmitOutcomes == {SubmitOutcome(r) : r \in AllSubmitResponses}

SubmitOutcomes(svc) ==
    IF svc = "arbitrary" THEN ArbitrarySubmitOutcomes
    ELSE {SubmitOutcome(r) : r \in SubmitResponses(svc)}

NoPoll == [url |-> None_, malformed |-> None_, status |-> "none"]

\* What a status response held: its status, and in result_url, result or
\* preview an HTTP(S) URL, or a value that is not empty and no such URL
\* (malformed), or nothing; NoPoll for a response that could not be read.
Seen(resp) ==
    IF resp.kind # "ok" THEN NoPoll
    ELSE IF ~Truthy(ResultField(resp))
        THEN [url |-> None_, malformed |-> None_, status |-> resp.status]
    ELSE IF is_http_url_raises(ResultField(resp)) \/ ~_is_http_url(ResultField(resp))
        THEN [url |-> None_, malformed |-> ResultField(resp), status |-> resp.status]
    ELSE [url |-> ResultField(resp), malformed |-> None_, status |-> resp.status]

\* a status response as far as the call can tell, and what the loop does on it
Poll(resp) == [seen |-> Seen(resp), o |-> PollOutcome(resp)]

ArbitraryPolls == {Poll(r) : r \in AllPollResponses}

Polls(svc, n) ==
    IF svc = "arbitrary" THEN ArbitraryPolls
    ELSE {Poll(r) : r \in PollResponses(svc, n)}

\* str(v), as an f-string formats v
PyStr(v) ==
    CASE v.t = "str"  -> v.s
      [] v.t = "none" -> <<"None">>
      [] v.t = "zero" -> <<"0">>
      [] v.t = "obj"  -> <<"{}">>

\* The mutant polls the address of the job "id" whatever the request id is.
StatusUrlOfOneJob(rid) == Str(<<"/request-status/", "id">>)

\* line 87: status_url = f"{DEAPI_BASE_URL}/request-status/{request_id}"
StatusUrl(rid) == Str(<<"/request-status/">> \o PyStr(rid))

-----------------------------------------------------------------------------
(* image_convert.py: _translate_uz_to_en *)

\* Longest text handed to the translation step.
MaxTrLen == 2

\* "u" a character of the Uzbek description, "e" one of an English text
TrChars == {" ", "u", "e"}

RECURSIVE SeqsUpTo(_, _)
SeqsUpTo(S, n) ==
    IF n = 0 THEN {<<>>}
    ELSE LET shorter == SeqsUpTo(S, n - 1)
         IN  shorter \cup {Append(q, c) : q \in shorter, c \in S}

TrTexts == {Str(q) : q \in SeqsUpTo(TrChars, MaxTrLen)}

\* values the "content" member of the first choice's message can hold
ContentValues == {None_, Str(<<>>), Str(<<" ", "\n">>), Str(<<"e">>),
                  Str(<<" ", "e", "\n">>), Obj, Zero}

\* Shapes of the answer to the chat completion request:
\*   transport, http_error, bad_json, non_dict   as for the generation service
\*   no_choices        no "choices" member: data.get("choices", [{}]) is [{}]
\*   empty_choices     "choices" is []
\*   choices_non_list  "choices" is null or another value without [0]
\*   choice_non_dict   choices[0] is no object
\*   no_message        choices[0] has no "message" member
\*   message_non_dict  "message" is null or no object
\*   ok                choices[0].message.content is resp.content
TrFailureKinds == {"transport", "http_error", "bad_json", "non_dict", "no_choices",
                   "empty_choices", "choices_non_list", "choice_non_dict",
                   "no_message", "message_non_dict"}

TrResponses == {[kind |-> k, content |-> None_] : k \in TrFailureKinds}
                  \cup {[kind |-> "ok", content |-> c] : c \in ContentValues}

NoResponse == [kind |-> "none", content |-> None_]

\* The exception lines 85-89 raise on a response, "none" if they raise nothing.
TrException(resp) ==
    CASE resp.kind = "transport"        -> "ConnectionError"
      [] resp.kind = "http_error"       -> "HTTPError"
      [] resp.kind = "bad_json"         -> "JSONDecodeError"
      [] resp.kind = "non_dict"         -> "AttributeError"
      [] resp.kind = "empty_choices"    -> "IndexError"
      [] resp.kind = "choices_non_list" -> "TypeError"
      [] resp.kind = "choice_non_dict"  -> "AttributeError"
      [] resp.kind = "message_non_dict" -> "AttributeError"
      [] resp.kind = "ok" /\ is_http_url_raises(resp.content) -> "AttributeError"
      [] OTHER                          -> "none"

\* The mutant catches only the errors of the requests library.
CaughtRequestsOnly(exc) == exc \in {"ConnectionError", "HTTPError", "JSONDecodeError"}

\* except Exception
Caught(exc) == exc \in {"ConnectionError", "HTTPError", "JSONDecodeError",
                        "AttributeError", "IndexError", "TypeError"}

TrResult(v, raised, calls) == [ret |-> v, raised |-> raised, calls |-> calls]

\* _translate_uz_to_en(text) with the credential `key`, when the service
\* answers resp to the request, if one is sent.
_translate_uz_to_en(text, key, resp) ==
    IF ~Truthy(text) \/ Strip(text.s) = <<>> THEN TrResult(text, FALSE, 0)
    ELSE IF ~key THEN TrResult(text, FALSE, 0)
    ELSE LET exc == TrException(resp)
             content == PyOr(resp.content, Str(<<>>))
             en == Strip(content.s)
         IN  IF exc # "none"
                 THEN IF Caught(exc) THEN TrResult(text, FALSE, 1)
                                     ELSE TrResult(None_, TRUE, 1)
             ELSE IF en = <<>> THEN TrResult(text, FALSE, 1)
             ELSE TrResult(Str(en), FALSE, 1)

\* TRUE iff the call sends a request, so that a response is consumed
TrSendsRequest(text, key) == Truthy(text) /\ Strip(text.s) # <<>> /\ key

TrIdle ==
    /\ trPc = "idle"
    /\ trText = None_
    /\ trResp = NoResponse
    /\ trReturn = None_
    /\ trRaised = FALSE
    /\ trCalls = 0

\* One call _translate_uz_to_en(text) against a service that answers with
\* one of `responses`.
Translate(text, responses) ==
    /\ trPc = "idle"
    /\ \E resp \in (IF TrSendsRequest(text, GROQ_API_KEY) THEN responses
                                                          ELSE {NoResponse}) :
          LET r == _translate_uz_to_en(text, GROQ_API_KEY, resp)
          IN  /\ trText' = text
              /\ trResp' = resp
              /\ trReturn' = r.ret
              /\ trRaised' = r.raised
              /\ trCalls' = r.calls
    /\ trPc' = "done"
    /\ UNCHANGED GROQ_API_KEY

-----------------------------------------------------------------------------
(* image_ai.py: generate_image_url_from_prompt *)

Returned(j, v) == [gpc |-> "done", job_attempt |-> j, ret |-> v, raised |-> FALSE]

Raised(j) == [gpc |-> "done", job_attempt |-> j, ret |-> None_, raised |-> TRUE]

\* The mutant gives up at the first job that fails.
NextJobGivesUp(j) == Returned(j, PLACEHOLDER_URL)

\* `continue` of the job loop, and the fallback after its last iteration
NextJob(j) ==
    IF j < MAX_JOBS
        THEN [gpc |-> "submit", job_attempt |-> j + 1, ret |-> None_, raised |-> FALSE]
        ELSE Returned(j, PLACEHOLDER_URL)

\* lines 158-167: img_url = _deapi_poll_result(...); if _is_http_url(img_url): return
AfterPoll(j, img_url) ==
    IF is_http_url_raises(img_url) THEN Raised(j)
    ELSE IF _is_http_url(img_url) THEN Returned(j, img_url)
    ELSE NextJob(j)

GenGoto(n) ==
    /\ gpc' = n.gpc
    /\ job_attempt' = n.job_attempt
    /\ genReturn' = n.ret
    /\ genRaised' = n.raised

\* The state in which no call of generate_image_url_from_prompt is running.
GenIdle ==
    /\ gpc = "idle"
    /\ prompt = <<>>
    /\ job_attempt = 0
    /\ request_id = None_
    /\ attempt = 0
    /\ genReturn = None_
    /\ genRaised = FALSE
    /\ nSubmit = 0
    /\ nPoll = 0
    /\ nSleep = 0
    /\ status_url = None_
    /\ polledUrl = None_
    /\ lastPoll = NoPoll
    /\ nJobPoll = 0
    /\ nJobSleep = 0

\* The call has returned to its caller: back to GenIdle.
GenReset ==
    /\ gpc' = "idle"
    /\ prompt' = <<>>
    /\ job_attempt' = 0
    /\ request_id' = None_
    /\ attempt' = 0
    /\ genReturn' = None_
    /\ genRaised' = FALSE
    /\ nSubmit' = 0
    /\ nPoll' = 0
    /\ nSleep' = 0
    /\ status_url' = None_
    /\ polledUrl' = None_
    /\ lastPoll' = NoPoll
    /\ nJobPoll' = 0
    /\ nJobSleep' = 0

Prompts == {<<"x">>, <<"x", " ", "x">>}

Goto(pc, j) == [gpc |-> pc, job_attempt |-> j, ret |-> None_, raised |-> FALSE]

\* The mutant enters the job loop without looking at the credential.
GenerateEntryNoCheck(token) == Goto("submit", 1)

\* lines 142-148: if not DEAPI_TOKEN: return PLACEHOLDER_URL; else the job loop
GenerateEntry(token) ==
    IF ~token THEN Returned(0, PLACEHOLDER_URL) ELSE Goto("submit", 1)

\* The mutant runs the loop body once more than range(max_attempts) does.
LoopContinuesOffByOne(a) == a < max_attempts

\* for attempt in range(max_attempts): is there an iteration after iteration a?
LoopContinues(a) == a + 1 < max_attempts

\* Entry of generate_image_url_from_prompt(p): the credential check.
GenerateCall(p) ==
    /\ gpc = "idle"
    /\ prompt' = p
    /\ GenGoto(GenerateEntry(DEAPI_TOKEN))

\* request_id = _deapi_txt2img_request(prompt); if not request_id: continue
Txt2ImgRequest ==
    /\ gpc = "submit"
    /\ \E rid \in (IF DEAPI_TOKEN THEN SubmitOutcomes(service) ELSE {None_}) :
          \* _deapi_txt2img_request sends nothing when DEAPI_TOKEN is empty
          /\ nSubmit' = nSubmit + (IF DEAPI_TOKEN THEN 1 ELSE 0)
          /\ request_id' = rid
          /\ IF ~Truthy(rid)
                THEN /\ GenGoto(NextJob(job_attempt))
                     /\ UNCHANGED <<attempt, status_url>>
                ELSE /\ attempt' = 0
                     \* _deapi_poll_result returns None at once without a token
                     /\ IF ~DEAPI_TOKEN
                           THEN /\ GenGoto(AfterPoll(job_attempt, None_))
                                /\ UNCHANGED status_url
                           ELSE /\ GenGoto(Goto("poll", job_attempt))
                                /\ status_url' = StatusUrl(rid)
    /\ nJobPoll' = 0
    /\ nJobSleep' = 0
    /\ lastPoll' = NoPoll
    /\ UNCHANGED <<DEAPI_TOKEN, service, prompt, nPoll, nSleep, polledUrl>>

\* One GET /request-status/{request_id} and the handling of its response.
PollStatus ==
    /\ gpc = "poll"
    /\ \E p \in Polls(service, attempt) :
          /\ nPoll' = nPoll + 1
          /\ nJobPoll' = nJobPoll + 1
          /\ polledUrl' = status_url
          /\ lastPoll' = p.seen
          /\ IF p.o.act = "sleep"
                THEN GenGoto(Goto("sleep", job_attempt))
                ELSE GenGoto(AfterPoll(job_attempt, p.o.value))
    /\ UNCHANGED <<DEAPI_TOKEN, service, prompt, request_id, attempt, nSubmit, nSleep,
                   status_url, nJobSleep>>

\* time.sleep(interval_sec); continue -- and the end of the loop after the
\* last iteration, where _deapi_poll_result returns None.
PollSleep ==
    /\ gpc = "sleep"
    /\ nSleep' = nSleep + 1
    /\ nJobSleep' = nJobSleep + 1
    /\ IF LoopContinues(attempt)
          THEN /\ attempt' = attempt + 1
               /\ GenGoto(Goto("poll", job_attempt))
          ELSE /\ attempt' = attempt
               /\ GenGoto(AfterPoll(job_attempt, None_))
    /\ lastPoll' = NoPoll
    /\ UNCHANGED <<DEAPI_TOKEN, service, prompt, request_id, nSubmit, nPoll, status_url,
                   polledUrl, nJobPoll>>

-----------------------------------------------------------------------------
(* image_ai.py, image_convert.py: IMAGE_MARKER_RE *)

\* Texts are token sequences over "[", "]", "RASM", ":", the digits, " ",
\* "\n" and "u" (any other character of the prose).

IsDigit(c) == c \in {"1", "2", "3", "4"}

\* index of the first token at or after i that is no white space (\s)
RECURSIVE SkipSpaces(_, _)
SkipSpaces(t, i) ==
    IF i <= Len(t) /\ IsSpace(t[i]) THEN SkipSpaces(t, i + 1) ELSE i

\* index of the first token at or after i that is no digit (\d)
RECURSIVE SkipDigits(_, _)
SkipDigits(t, i) ==
    IF i <= Len(t) /\ IsDigit(t[i]) THEN SkipDigits(t, i + 1) ELSE i

\* index of the first "]" at or after i, Len(t) + 1 if there is none
RECURSIVE FirstClose(_, _)
FirstClose(t, i) ==
    IF i <= Len(t) /\ t[i] # "]" THEN FirstClose(t, i + 1) ELSE i

NoMatch == [ok |-> FALSE, start |-> 0, colon |-> 0, close |-> 0,
            index |-> <<>>, group2 |-> <<>>]

\* The match of \[RASM\s+(\d+):\s*([^\]]+)\] that starts at token i of t.
\* \s+ and \d+ take their whole runs; [^\]]+ runs up to the first "]" and
\* needs one token, which \s* gives back when only white space precedes "]".
MatchAt(t, i) ==
    IF ~(i + 1 <= Len(t) /\ t[i] = "[" /\ t[i + 1] = "RASM") THEN NoMatch
    ELSE LET a == SkipSpaces(t, i + 2)
             b == SkipDigits(t, a)
         IN  IF ~(a > i + 2 /\ b > a /\ b <= Len(t) /\ t[b] = ":") THEN NoMatch
             ELSE LET e == FirstClose(t, b + 1)
                      g == SkipSpaces(t, b + 1)
                  IN  IF ~(e <= Len(t) /\ e > b + 1) THEN NoMatch
                      ELSE [ok |-> TRUE, start |-> i, colon |-> b, close |-> e,
                            index |-> SubSeq(t, a, b - 1),
                            group2 |-> IF g >= e THEN SubSeq(t, e - 1, e - 1)
                                                 ELSE SubSeq(t, g, e - 1)]

\* The mutant looks for the next match one token too far to the right.
RECURSIVE SearchSkippingOne(_, _)
SearchSkippingOne(t, i) ==
    IF i + 1 > Len(t) THEN NoMatch
    ELSE IF MatchAt(t, i + 1).ok THEN MatchAt(t, i + 1)
    ELSE SearchSkippingOne(t, i + 1)

\* IMAGE_MARKER_RE.search(t, i): the leftmost match at or after token i
RECURSIVE Search(_, _)
Search(t, i) ==
    IF i > Len(t) THEN NoMatch
    ELSE IF MatchAt(t, i).ok THEN MatchAt(t, i)
    ELSE Search(t, i + 1)

-----------------------------------------------------------------------------
(* image_ai.py, image_convert.py: inject_ai_images_into_content *)

DivOpen == "<div class=image-container>"

DivClose == "</div>"

CaptionOpen == "<p class=image-caption>"

CaptionClose == "</p>"

ImgEmbedded == "<img src=data:image;base64>"

ImgRemoteOpen == "<img src="

ImgRemoteClose == ">"

\* url_to_img_tag(img_url, inline=False, max_width="14cm"): the asset inliner
\* fetches the URL and embeds its bytes; when the fetch fails the tag keeps
\* the URL itself.
url_to_img_tag(img_url, fetch) ==
    IF fetch = "ok" THEN <<ImgEmbedded>>
    ELSE <<ImgRemoteOpen>> \o img_url.s \o <<ImgRemoteClose>>

FetchOutcomes == {"ok", "failed"}

\* The mutant writes the caption from the text sent to the generation service.
html_block_prompt_caption(img_html, index, desc, sent) ==
    <<"\n", " ", DivOpen, "\n", " ">> \o img_html
        \o <<"\n", " ", CaptionOpen, "\n", " ", "Rasm", " ">> \o index \o <<".", " ">>
        \o sent
        \o <<"\n", " ", CaptionClose, "\n", " ", DivClose, "\n", " ">>

\* The f-string html_block; `sent` is the prompt sent for the marker.
html_block(img_html, index, desc, sent) ==
    <<"\n", " ", DivOpen, "\n", " ">> \o img_html
        \o <<"\n", " ", CaptionOpen, "\n", " ", "Rasm", " ">> \o index \o <<".", " ">>
        \o desc
        \o <<"\n", " ", CaptionClose, "\n", " ", DivClose, "\n", " ">>

PromptHead == "High-quality minimalist scientific infographic ... Topic: "

PromptTail == ". Vector-style diagram or block-scheme ..."

\* image_convert.py lines 269-274: the English prompt around desc_en
EnglishPrompt(desc_en) == <<PromptHead>> \o desc_en \o <<PromptTail>>

\* answers of the translation service during marker substitution
InjectTrResponses == {[kind |-> "transport", content |-> None_],
                      [kind |-> "ok", content |-> Str(<<" ", "e", "\n">>)]}

\* The mutant drops the text between the previous match and this one.
BetweenDropped(t, from, m) == <<>>

\* re.sub copies the text between the previous match and this one
Between(t, from, m) == SubSeq(t, from, m.start - 1)

InjIdle ==
    /\ variant = "image_ai"
    /\ injPc = "idle"
    /\ raw = <<>>
    /\ pos = 0
    /\ out = <<>>
    /\ cur = NoMatch
    /\ prompts = <<>>

\* inject_ai_images_into_content(r): `if not raw: return ""`, else re.sub starts
InjectCall(r) ==
    /\ injPc = "idle"
    /\ raw' = r
    /\ out' = <<>>
    /\ IF r = <<>> THEN injPc' = "done" /\ pos' = 0
                   ELSE injPc' = "scan" /\ pos' = 1
    /\ UNCHANGED <<variant, cur, prompts>>

\* re.sub finds no further marker: the rest of the text is copied and
\* inject_ai_images_into_content returns.
ScanEnd ==
    /\ injPc = "scan"
    /\ ~Search(raw, pos).ok
    /\ out' = out \o SubSeq(raw, pos, Len(raw))
    /\ pos' = Len(raw) + 1
    /\ injPc' = "done"
    /\ UNCHANGED <<variant, raw, cur, prompts>>

\* _replace answering a description it has met before from memory
ReplaceBeginCached ==
    /\ injPc = "scan"
    /\ variant = "image_ai"
    /\ Search(raw, pos).ok
    /\ cur' = Search(raw, pos)
    /\ LET desc == Strip(cur'.group2)
       IN  IF \E k \in 1..Len(prompts) : prompts[k] = desc
              THEN /\ gpc' = "done"
                   /\ prompt' = desc
                   /\ genReturn' = PLACEHOLDER_URL
                   /\ UNCHANGED <<job_attempt, genRaised, prompts>>
              ELSE /\ GenerateCall(desc)
                   /\ prompts' = Append(prompts, desc)
    /\ injPc' = "generate"
    /\ UNCHANGED <<variant, raw, pos, out>>

\* image_ai.py _replace, lines 197-202: re.sub calls _replace with the next
\* match, which calls generate_image_url_from_prompt(desc).
ReplaceBegin ==
    /\ injPc = "scan"
    /\ variant = "image_ai"
    /\ Search(raw, pos).ok
    /\ cur' = Search(raw, pos)
    /\ LET desc == Strip(cur'.group2)
       IN  /\ GenerateCall(desc)
           /\ prompts' = Append(prompts, desc)
    /\ injPc' = "generate"
    /\ UNCHANGED <<variant, raw, pos, out>>

\* image_convert.py _replace, lines 262-263: the next match is taken up; the
\* translation request comes next.
ReplaceBeginTranslating ==
    /\ injPc = "scan"
    /\ variant = "image_convert"
    /\ Search(raw, pos).ok
    /\ cur' = Search(raw, pos)
    /\ injPc' = "translate"
    /\ UNCHANGED <<variant, raw, pos, out, prompts>>

\* image_convert.py _replace, lines 266-277: desc_en = _translate_uz_to_en(desc_uz),
\* then generate_image_url_from_prompt(prompt) is entered.
TranslateDesc ==
    /\ injPc = "translate"
    /\ Translate(Str(Strip(cur.group2)), InjectTrResponses)
    /\ IF trRaised'
          THEN /\ injPc' = "raised"
               /\ UNCHANGED <<genVars, prompts>>
          ELSE /\ GenerateCall(EnglishPrompt(trReturn'.s))
               /\ prompts' = Append(prompts, EnglishPrompt(trReturn'.s))
               /\ injPc' = "generate"
    /\ UNCHANGED <<variant, raw, pos, out, cur>>

\* _replace after generate_image_url_from_prompt has returned: url_to_img_tag,
\* the html_block, and re.sub going on behind the match.
ReplaceEnd ==
    /\ injPc = "generate"
    /\ gpc = "done"
    /\ IF genRaised
          THEN /\ injPc' = "raised"
               /\ UNCHANGED <<pos, out>>
          ELSE /\ \E fetch \in FetchOutcomes :
                    out' = out \o Between(raw, pos, cur)
                               \o html_block(url_to_img_tag(genReturn, fetch),
                                             cur.index, Strip(cur.group2),
                                             prompts[Len(prompts)])
               /\ pos' = cur.close + 1
               /\ injPc' = "scan"
    /\ GenReset
    /\ trPc' = "idle"
    /\ UNCHANGED <<DEAPI_TOKEN, service, GROQ_API_KEY, trText, trResp, trReturn,
                   trRaised, trCalls, variant, raw, cur, prompts>>

-----------------------------------------------------------------------------
(* main.py: clean_ai_content *)

\* Further tokens of document texts: "Izoh" and "Eslatma" the words that open
\* a note, "---" a run of three dashes, "#" one heading mark, "|" a table
\* bar, "**" the bold mark, "$" and "$$" the formula delimiters, "." a full
\* stop, and the titles of the four main sections.  Two "**" tokens never
\* stand next to each other in a text.

Min(S) == CHOOSE x \in S : \A y \in S : x <= y

Max(S) == CHOOSE x \in S : \A y \in S : x >= y

\* re.IGNORECASE on the words the patterns name
FoldCase(c) == CASE c \in {"IZOH", "izoh"} -> "Izoh"
                 [] c = "KIRISH"            -> "Kirish"
                 [] OTHER                   -> c

PageMarker == "[FOYDALANILGAN ADABIYOTLAR YANGI SAHIFA]"

\* ^ under re.MULTILINE
LineStart(t, i) == i = 1 \/ t[i - 1] = "\n"

\* \n+\s*(Izoh|Eslatma)\s*: matches from token i on
NoteAt(t, i) ==
    /\ t[i] = "\n"
    /\ LET j == SkipSpaces(t, i)
       IN  /\ j <= Len(t)
           /\ FoldCase(t[j]) \in {"Izoh", "Eslatma"}
           /\ LET k == SkipSpaces(t, j + 1)
              IN  k <= Len(t) /\ t[k] = ":"

\* lines 1566-1571: the leftmost match is cut, and .*$ under re.DOTALL runs to
\* the end of the text
StripNote(t) ==
    LET starts == {i \in 1..Len(t) : NoteAt(t, i)}
    IN  IF starts = {} THEN t ELSE SubSeq(t, 1, Min(starts) - 1)

\* Last token of the match of ^\s*X\s*$ (re.MULTILINE) that starts at the line
\* start i, 0 if there is none.  Both \s* take line breaks too; the second
\* one gives back as far as the last line break it took, unless it reached
\* the end of the text.
RuleEnd(t, i, X) ==
    LET x == SkipSpaces(t, i)
    IN  IF x > Len(t) \/ t[x] # X THEN 0
        ELSE LET q  == SkipSpaces(t, x + 1)
                 nl == {k \in (x + 1)..(q - 1) : t[k] = "\n"}
             IN  IF q > Len(t) THEN Len(t)
                 ELSE IF nl = {} THEN 0
                 ELSE Max(nl) - 1

\* re.sub(r"^\s*X\s*$", "", t, flags=re.MULTILINE) from token i on
RECURSIVE RemoveRules(_, _, _)
RemoveRules(t, i, X) ==
    IF i > Len(t) THEN <<>>
    ELSE IF LineStart(t, i) /\ RuleEnd(t, i, X) # 0
        THEN RemoveRules(t, RuleEnd(t, i, X) + 1, X)
    ELSE <<t[i]>> \o RemoveRules(t, i + 1, X)

\* index of the first token at or after i that is no "#", at most n further on
RECURSIVE SkipHashes(_, _, _)
SkipHashes(t, i, n) ==
    IF n > 0 /\ i <= Len(t) /\ t[i] = "#" THEN SkipHashes(t, i + 1, n - 1) ELSE i

\* re.sub(r"^#{1,6}\s*", "", t, flags=re.MULTILINE) from token i on
RECURSIVE RemoveHashes(_, _)
RemoveHashes(t, i) ==
    IF i > Len(t) THEN <<>>
    ELSE IF LineStart(t, i) /\ t[i] = "#"
        THEN RemoveHashes(t, SkipSpaces(t, SkipHashes(t, i, 6)))
    ELSE <<t[i]>> \o RemoveHashes(t, i + 1)

\* index of the first token at or after i that is no line break
RECURSIVE SkipBreaks(_, _)
SkipBreaks(t, i) ==
    IF i <= Len(t) /\ t[i] = "\n" THEN SkipBreaks(t, i + 1) ELSE i

\* re.sub(r"\n{2,}", "\n\n", t) from token i on
RECURSIVE CollapseBreaks(_, _)
CollapseBreaks(t, i) ==
    IF i > Len(t) THEN <<>>
    ELSE IF t[i] = "\n" /\ i < Len(t) /\ t[i + 1] = "\n"
        THEN <<"\n", "\n">> \o CollapseBreaks(t, SkipBreaks(t, i))
    ELSE <<t[i]>> \o CollapseBreaks(t, i + 1)

\* re.sub raises TypeError when raw is truthy and no string
clean_ai_content_raises(raw_) == Truthy(raw_) /\ raw_.t # "str"

clean_ai_content(raw_) ==
    LET text  == IF Truthy(raw_) THEN raw_.s ELSE <<>>
        text1 == StripNote(text)
        text2 == RemoveRules(text1, 1, PageMarker)
        text3 == RemoveRules(text2, 1, "---")
        text4 == RemoveHashes(text3, 1)
        text5 == CollapseBreaks(text4, 1)
    IN  Strip(text5)

-----------------------------------------------------------------------------
(* main.py: ai_content_to_html_paragraphs *)

StrongOpen == "<strong>"

StrongClose == "</strong>"

POpen == "<p>"

PClose == "</p>"

MainTitleOpen == "<p class=section-title-main>"

SubTitleOpen == "<p class=section-title-sub>"

PageBreak == "<br style=page-break-before:always>"

TableOpen == "<table border=1>"

TableClose == "</table>"

FormulaBreak == "<br/>"

\* tokens that start with "<"
MarkupTokens == {DivOpen, DivClose, CaptionOpen, CaptionClose, ImgEmbedded, ImgRemoteOpen,
                 StrongOpen, StrongClose, POpen, MainTitleOpen, SubTitleOpen, PageBreak,
                 TableOpen, TableClose, FormulaBreak,
                 "<tr>", "</tr>", "<th>", "</th>", "<td>", "</td>"}

\* indices j > i + 1 of the tokens of t that are d, up to the first token in
\* `stop`
Closers(t, i, d, stop) ==
    {j \in (i + 2)..Len(t) : t[j] = d /\ \A k \in (i + 1)..(j - 1) : t[k] \notin stop}

\* the formula renderer: the expression without its white space goes into the
\* URL of the rendering service, and the asset inliner embeds the picture
FormulaImg(expr, fetch) ==
    url_to_img_tag(Str(<<"https://", "latex">> \o SelectSeq(expr, LAMBDA c : ~IsSpace(c))),
                   fetch)

\* replace_latex_with_images from token i on: a block span $$...$$ renders on
\* a line of its own, an inline span $...$ holds no line break and renders in
\* line; the tokens before the first span that opens at or after i are kept
RECURSIVE replace_latex_from(_, _, _)
replace_latex_from(t, i, fetch) ==
    LET opens == {k \in i..Len(t) :
                    \/ t[k] = "$$" /\ Closers(t, k, "$$", {"$$"}) # {}
                    \/ t[k] = "$" /\ Closers(t, k, "$", {"$", "\n"}) # {}}
    IN  IF opens = {} THEN SubSeq(t, i, Len(t))
        ELSE LET k == Min(opens)
             IN  IF t[k] = "$$"
                    THEN LET j == Min(Closers(t, k, "$$", {"$$"}))
                         IN  SubSeq(t, i, k - 1) \o <<FormulaBreak>>
                                 \o FormulaImg(SubSeq(t, k + 1, j - 1), fetch)
                                 \o <<FormulaBreak>> \o replace_latex_from(t, j + 1, fetch)
                    ELSE LET j == Min(Closers(t, k, "$", {"$", "\n"}))
                         IN  SubSeq(t, i, k - 1)
                                 \o FormulaImg(SubSeq(t, k + 1, j - 1), fetch)
                                 \o replace_latex_from(t, j + 1, fetch)

replace_latex_with_images(t, fetch) == replace_latex_from(t, 1, fetch)

\* re.sub(r"\*\*(.+?)\*\*", r"<strong>\1</strong>", t, flags=re.DOTALL) from
\* token i on; the tokens before the first match at or after i are kept
RECURSIVE Bold(_, _)
Bold(t, i) ==
    LET opens == {k \in i..Len(t) : t[k] = "**" /\ Closers(t, k, "**", {}) # {}}
    IN  IF opens = {} THEN SubSeq(t, i, Len(t))
        ELSE LET k == Min(opens)
                 j == Min(Closers(t, k, "**", {}))
             IN  SubSeq(t, i, k - 1) \o <<StrongOpen>> \o SubSeq(t, k + 1, j - 1)
                     \o <<StrongClose>> \o Bold(t, j + 1)

\* str.splitlines()
RECURSIVE splitlines(_)
splitlines(t) ==
    IF t = <<>> THEN <<>>
    ELSE LET brk == {i \in 1..Len(t) : t[i] = "\n"}
             n   == IF brk = {} THEN Len(t) + 1 ELSE Min(brk)
         IN  <<SubSeq(t, 1, n - 1)>> \o splitlines(SubSeq(t, n + 1, Len(t)))

\* sep.join(parts)
RECURSIVE Join(_, _)
Join(parts, sep) ==
    IF parts = <<>> THEN <<>>
    ELSE IF Len(parts) = 1 THEN parts[1]
    ELSE parts[1] \o sep \o Join(Tail(parts), sep)

\* re.match(r"^\s*\|.*\|\s*$", line)
IsTableRow(line) ==
    LET s == Strip(line) IN Len(s) >= 2 /\ s[1] = "|" /\ s[Len(s)] = "|"

\* re.match(r"^\s*\|?\s*-+\s*(\|\s*-+\s*)+\|?\s*$", r): runs of dashes with one
\* bar between each two, at least two runs, a bar before and behind or not,
\* white space anywhere but inside a run
IsSeparatorRow(r) ==
    LET s == SelectSeq(r, LAMBDA c : ~IsSpace(c))
        a == IF s # <<>> /\ s[1] = "|" THEN 2 ELSE 1
        b == IF Len(s) >= a /\ s[Len(s)] = "|" THEN Len(s) - 1 ELSE Len(s)
    IN  /\ a <= b
        /\ s[a] = "---" /\ s[b] = "---"
        /\ \A k \in a..b : s[k] \in {"---", "|"}
        /\ \E k \in a..b : s[k] = "|"
        /\ \A k \in a..(b - 1) : ~(s[k] = "|" /\ s[k + 1] = "|")
        /\ \A k \in 1..(Len(r) - 2) :
              ~(r[k] = "---" /\ IsSpace(r[k + 1]) /\ SkipSpaces(r, k + 1) <= Len(r)
                    /\ r[SkipSpaces(r, k + 1)] = "---")

\* s.strip("|")
RECURSIVE StripBars(_)
StripBars(s) ==
    IF s # <<>> /\ Head(s) = "|" THEN StripBars(Tail(s))
    ELSE IF s # <<>> /\ s[Len(s)] = "|" THEN StripBars(SubSeq(s, 1, Len(s) - 1))
    ELSE s

\* s.split("|")
RECURSIVE SplitBars(_)
SplitBars(s) ==
    LET bars == {i \in 1..Len(s) : s[i] = "|"}
    IN  IF bars = {} THEN <<s>>
        ELSE <<SubSeq(s, 1, Min(bars) - 1)>> \o SplitBars(SubSeq(s, Min(bars) + 1, Len(s)))

\* lines 1639-1641: one table row, <th> cells in the first row and <td> cells
\* in the others
TableRow(row, tag) ==
    LET cells == SplitBars(StripBars(Strip(row)))
        open  == IF tag = "th" THEN "<th>" ELSE "<td>"
        close == IF tag = "th" THEN "</th>" ELSE "</td>"
    IN  <<"<tr>">>
            \o Join([k \in 1..Len(cells) |-> <<open>> \o Strip(cells[k]) \o <<close>>], <<>>)
            \o <<"</tr>">>

\* flush_table: the blocks the buffered rows add to html_blocks, none or one
flush_table(table_buffer) ==
    LET cleaned_rows == SelectSeq(table_buffer, LAMBDA r : ~IsSeparatorRow(r))
    IN  IF cleaned_rows = <<>> THEN <<>>
        ELSE <<Join(<< <<TableOpen>> >>
                        \o [k \in 1..Len(cleaned_rows) |->
                                TableRow(cleaned_rows[k], IF k = 1 THEN "th" ELSE "td")]
                        \o << <<TableClose>> >>,
                    <<"\n">>)>>

\* re.match(r"^<n>\.\s*<title>\s*$", stripped, flags=re.IGNORECASE)
IsMainTitle(stripped, n, title) ==
    /\ Len(stripped) >= 3
    /\ stripped[1] = n /\ stripped[2] = "."
    /\ LET k == SkipSpaces(stripped, 3)
       IN  k = Len(stripped) /\ FoldCase(stripped[k]) = title

\* re.match(r"^4\.\s*Foydalanilgan adabiyotlar", stripped, flags=re.IGNORECASE)
IsReferencesTitle(stripped) ==
    /\ Len(stripped) >= 3
    /\ stripped[1] = "4" /\ stripped[2] = "."
    /\ LET k == SkipSpaces(stripped, 3)
       IN  k <= Len(stripped) /\ FoldCase(stripped[k]) = "Foydalanilgan adabiyotlar"

\* re.match(r"^\d+\.\d+\.\s+.+$", stripped)
IsSubTitle(stripped) ==
    LET a == SkipDigits(stripped, 1)
        b == SkipDigits(stripped, a + 1)
    IN  /\ a > 1 /\ a <= Len(stripped) /\ stripped[a] = "."
        /\ b > a + 1 /\ b <= Len(stripped) /\ stripped[b] = "."
        /\ b + 2 <= Len(stripped) /\ IsSpace(stripped[b + 1])

\* The mutant forces a page break before the title of the first section too.
LineBlocksBreakBeforeKirish(line) ==
    LET stripped == Strip(line)
    IN  IF stripped = <<>> THEN <<>>
        ELSE IF IsMainTitle(stripped, "1", "Kirish")
            THEN << <<PageBreak>>, <<MainTitleOpen, "1", ".", " ", "Kirish", PClose>> >>
        ELSE IF IsReferencesTitle(stripped)
            THEN << <<PageBreak>>,
                    <<MainTitleOpen, "4", ".", " ", "Foydalanilgan adabiyotlar", PClose>> >>
        ELSE IF stripped[1] \in MarkupTokens
            THEN << stripped >>
        ELSE << <<POpen>> \o stripped \o <<PClose>> >>

\* The mutant wraps every line that is no title as a paragraph, markup too.
LineBlocksNoPassThrough(line) ==
    LET stripped == Strip(line)
    IN  IF stripped = <<>> THEN <<>>
        ELSE IF IsReferencesTitle(stripped)
            THEN << <<PageBreak>>,
                    <<MainTitleOpen, "4", ".", " ", "Foydalanilgan adabiyotlar", PClose>> >>
        ELSE << <<POpen>> \o stripped \o <<PClose>> >>

\* lines 1650-1704: the blocks one line that is no table row adds
LineBlocks(line) ==
    LET stripped == Strip(line)
    IN  IF stripped = <<>> THEN <<>>
        ELSE IF IsMainTitle(stripped, "1", "Kirish")
            THEN << <<MainTitleOpen, "1", ".", " ", "Kirish", PClose>> >>
        ELSE IF IsMainTitle(stripped, "2", "Asosiy qism")
            THEN << <<MainTitleOpen, "2", ".", " ", "Asosiy qism", PClose>> >>
        ELSE IF IsMainTitle(stripped, "3", "Xulosa")
            THEN << <<MainTitleOpen, "3", ".", " ", "Xulosa", PClose>> >>
        ELSE IF IsReferencesTitle(stripped)
            THEN << <<PageBreak>>,
                    <<MainTitleOpen, "4", ".", " ", "Foydalanilgan adabiyotlar", PClose>> >>
        ELSE IF IsSubTitle(stripped)
            THEN << <<SubTitleOpen>> \o stripped \o <<PClose>> >>
        ELSE IF stripped[1] \in MarkupTokens
            THEN << stripped >>
        ELSE << <<POpen>> \o stripped \o <<PClose>> >>

\* The mutant emits a buffered table behind the block of the line after it.
RECURSIVE html_blocks_late_flush(_, _, _)
html_blocks_late_flush(lines, i, table_buffer) ==
    IF i > Len(lines) THEN flush_table(table_buffer)
    ELSE IF IsTableRow(lines[i])
        THEN html_blocks_late_flush(lines, i + 1, Append(table_buffer, lines[i]))
    ELSE LineBlocks(lines[i]) \o flush_table(table_buffer)
            \o html_blocks_late_flush(lines, i + 1, <<>>)

\* lines 1645-1708: html_blocks after the lines from the i-th on, table_buffer
\* holding the table rows seen just before
RECURSIVE html_blocks(_, _, _)
html_blocks(lines, i, table_buffer) ==
    IF i > Len(lines) THEN flush_table(table_buffer)
    ELSE IF IsTableRow(lines[i]) THEN html_blocks(lines, i + 1, Append(table_buffer, lines[i]))
    ELSE flush_table(table_buffer) \o LineBlocks(lines[i]) \o html_blocks(lines, i + 1, <<>>)

ai_content_to_html_paragraphs(content, fetch) ==
    IF content = <<>> THEN <<>>
    ELSE LET content_processed == Bold(replace_latex_with_images(content, fetch), 1)
         IN  Join(html_blocks(splitlines(content_processed), 1, <<>>), <<"\n">>)

-----------------------------------------------------------------------------
(* main.py: build_title_page_html, build_word_doc_file, handle_send_referat *)

TitlePageOpen == "<div class=title-page>"

TitlePageClose == "</div><!-- title-page -->"

TopicOpen == "Mavzu: <span>"

TopicClose == "</span>"

Year == "year"

HtmlOpen == "<html><head><meta charset=utf-8><title>"

StyleSheet == "</title><style>...</style></head>"

BodyOpen == "<body>"

BodyClose == "</body>"

HtmlClose == "</html>"

\* a lone surrogate, U+D800: a character a JSON string can hold ("\ud800") and
\* UTF-8 cannot encode
LoneSurrogate == "U+D800"

UpperTok(c) == CASE c = "u"       -> "U"
                 [] c = "Referat" -> "REFERAT"
                 [] OTHER         -> c

\* str.upper()
Upper(s) == [i \in 1..Len(s) |-> UpperTok(s[i])]

\* lines 1726-1798: the cover page, closed by a forced page break
build_title_page_html(topic_, work_type_name_) ==
    <<"\n", " ", TitlePageOpen>> \o Upper(work_type_name_) \o <<TopicOpen>> \o topic_
        \o <<TopicClose, Year, TitlePageClose, "\n", " ", PageBreak, "\n", " ">>

\* The mutant leaves the body out of the document.
DocumentWithoutBody(topic_, work_type_name_, title, body) ==
    <<"\n", " ", HtmlOpen>> \o work_type_name_ \o <<" ", "-", " ">> \o topic_
        \o <<StyleSheet, "\n", " ", BodyOpen, "\n", " ">> \o title \o <<"\n", " ">>
        \o <<"\n", " ", BodyClose, "\n", " ", HtmlClose, "\n", " ">>

\* lines 1822-1897: the f-string html, the document shell around cover and body
Document(topic_, work_type_name_, title, body) ==
    <<"\n", " ", HtmlOpen>> \o work_type_name_ \o <<" ", "-", " ">> \o topic_
        \o <<StyleSheet, "\n", " ", BodyOpen, "\n", " ">> \o title \o <<"\n", " ">> \o body
        \o <<"\n", " ", BodyClose, "\n", " ", HtmlClose, "\n", " ">>

IsAlnum(c) == c \in {"u", "U", "1", "2", "3", "4"}

\* re.sub(r"[^0-9A-Za-z...]+", "_", topic) from token i on
RECURSIVE SafeChars(_, _)
SafeChars(t, i) ==
    IF i > Len(t) THEN <<>>
    ELSE IF IsAlnum(t[i]) THEN <<t[i]>> \o SafeChars(t, i + 1)
    ELSE IF i > 1 /\ ~IsAlnum(t[i - 1]) THEN SafeChars(t, i + 1)
    ELSE <<"_">> \o SafeChars(t, i + 1)

\* line 1810: safe_topic
safe_topic(topic_) ==
    LET s == SafeChars(topic_, 1)
        c == SubSeq(s, 1, IF Len(s) < 40 THEN Len(s) ELSE 40)
    IN  IF c = <<>> THEN <<"referat">> ELSE c

\* line 1899: the path tempfile.mkstemp returns
TempPath(topic_) == Str(<<"/tmp/">> \o safe_topic(topic_) \o <<"_", "mkstemp", ".doc">>)

\* f.write(html) encodes the text as UTF-8
Encodable(text) == \A i \in 1..Len(text) : text[i] # LoneSurrogate

\* Outcomes of lines 1900-1902 (os.close, open, f.write): a text UTF-8 cannot
\* encode raises UnicodeEncodeError, any text can meet an OSError.
WriteOutcomes(text) == IF Encodable(text) THEN {"written", "os_error"} ELSE {"encode_error"}

\* Fields of the request body as the handler reads them, lines 2009-2017.
TelegramUserId(r) == PyOr(r.telegramUserId, r.telegram_user_id)

Topic(r) == r.topic

WorkTypeName(r) == PyOr(PyOr(r.workTypeName, r.work_type_name), Str(<<"Referat">>))

Content(r) == PyOr(r.content, r.contentFull)

\* int(v) raises for None, a list or a dict and for a string that is no
\* number; a number with a fraction is cut to its whole part.
int_raises(v) ==
    \/ v.t \in {"none", "obj"}
    \/ /\ v.t = "str"
       /\ \/ Strip(v.s) = <<>>
          \/ \E i \in 1..Len(Strip(v.s)) : ~IsDigit(Strip(v.s)[i])

\* The handler is left with HTTP status `status`; nothing was built.
Respond(status) ==
    /\ response' = status
    /\ hpc' = "done"
    /\ UNCHANGED <<file_path, title_html, body_html, fileExists, fileContent,
                   buildResult, buildError, sentDocs, cleanup, injVars>>

\* except Exception of lines 2045-2047: an exception `error` left
\* build_word_doc_file; the finally block comes next.
BuildRaised(error) ==
    /\ buildResult' = "raised"
    /\ buildError' = error
    /\ response' = 500
    /\ hpc' = "finally"

\* handle_send_referat, lines 2004-2031, and build_word_doc_file, lines
\* 1809-1815: the request is read and checked, the content is cleaned and
\* inject_ai_images_into_content is entered.
HandleSendReferat(r) ==
    /\ hpc = "idle"
    /\ request' = r
    /\ IF r.json = "invalid" THEN Respond(400) /\ hRaised' = FALSE
       ELSE IF r.json = "not_object" THEN Respond(500) /\ hRaised' = TRUE
       ELSE IF ~r.token THEN Respond(403) /\ hRaised' = FALSE
       ELSE IF ~Truthy(TelegramUserId(r)) \/ ~Truthy(Topic(r)) \/ ~Truthy(Content(r))
           THEN Respond(400) /\ hRaised' = FALSE
       ELSE IF int_raises(TelegramUserId(r)) THEN Respond(400) /\ hRaised' = FALSE
       ELSE IF Topic(r).t # "str" \/ clean_ai_content_raises(Content(r))
           THEN /\ BuildRaised("type")
                /\ hRaised' = FALSE
                /\ UNCHANGED <<file_path, title_html, body_html, fileExists, fileContent,
                               sentDocs, cleanup, injVars>>
       ELSE /\ InjectCall(clean_ai_content(Content(r)))
            /\ hpc' = "inject"
            /\ hRaised' = FALSE
            /\ UNCHANGED <<response, file_path, title_html, body_html, fileExists,
                           fileContent, buildResult, buildError, sentDocs, cleanup>>

\* build_word_doc_file, lines 1818-1899: inject_ai_images_into_content has
\* returned; the cover page, the body and the document are put together and
\* tempfile.mkstemp creates the transient file.
BuildDocument ==
    /\ hpc = "inject"
    /\ injPc \in {"done", "raised"}
    /\ IF injPc = "raised"
          THEN /\ BuildRaised("substitution")
               /\ UNCHANGED <<title_html, body_html, fileExists, fileContent>>
          ELSE IF WorkTypeName(request).t # "str"
          THEN /\ BuildRaised("type")
               /\ UNCHANGED <<title_html, body_html, fileExists, fileContent>>
          ELSE \E fetch \in FetchOutcomes, created \in BOOLEAN :
                  /\ title_html' = build_title_page_html(Topic(request).s,
                                                         WorkTypeName(request).s)
                  /\ body_html' = ai_content_to_html_paragraphs(out, fetch)
                  /\ IF created
                        THEN /\ fileExists' = TRUE
                             /\ fileContent' = <<>>
                             /\ hpc' = "write"
                             /\ UNCHANGED <<response, buildResult, buildError>>
                        ELSE /\ BuildRaised("mkstemp")
                             /\ UNCHANGED <<fileExists, fileContent>>
    /\ UNCHANGED <<request, hRaised, file_path, sentDocs, cleanup, injVars>>

\* build_word_doc_file returning the path although the write broke off
WriteDocumentUnfinished ==
    /\ hpc = "write"
    /\ LET html == Document(Topic(request).s, WorkTypeName(request).s, title_html, body_html)
       IN  \E outcome \in WriteOutcomes(html) :
              /\ fileContent' = IF outcome = "written" THEN html
                                ELSE SubSeq(html, 1, Len(html) \div 2)
              /\ buildResult' = "returned"
              /\ file_path' = TempPath(Topic(request).s)
              /\ hpc' = "send"
              /\ UNCHANGED <<response, buildError>>
    /\ UNCHANGED <<request, hRaised, title_html, body_html, fileExists, sentDocs, cleanup,
                   injVars>>

\* build_word_doc_file, lines 1900-1903, and line 2031: the document is
\* written and its path returned to the handler, or the exception of the
\* write leaves build_word_doc_file before file_path is assigned.
WriteDocument ==
    /\ hpc = "write"
    /\ LET html == Document(Topic(request).s, WorkTypeName(request).s, title_html, body_html)
       IN  \E outcome \in WriteOutcomes(html) :
              IF outcome = "written"
                 THEN /\ fileContent' = html
                      /\ buildResult' = "returned"
                      /\ file_path' = TempPath(Topic(request).s)
                      /\ hpc' = "send"
                      /\ UNCHANGED <<response, buildError>>
                 ELSE /\ BuildRaised("write")
                      /\ UNCHANGED <<fileContent, file_path>>
    /\ UNCHANGED <<request, hRaised, title_html, body_html, fileExists, sentDocs, cleanup,
                   injVars>>

\* handle_send_referat, lines 2032-2047: bot.send_document uploads the file; a
\* failure of the upload is caught and answered with status 500.
SendDocument ==
    /\ hpc = "send"
    /\ \E delivered \in BOOLEAN :
          IF delivered
             THEN /\ sentDocs' = Append(sentDocs, fileContent)
                  /\ response' = 200
             ELSE /\ response' = 500
                  /\ UNCHANGED sentDocs
    /\ hpc' = "finally"
    /\ UNCHANGED <<request, hRaised, file_path, title_html, body_html, fileExists,
                   fileContent, buildResult, buildError, cleanup, injVars>>

\* handle_send_referat, lines 2048-2053: the finally block removes the file
\* file_path names, and passes over a failure of os.remove.
Cleanup ==
    /\ hpc = "finally"
    /\ IF Truthy(file_path) /\ fileExists
          THEN \E removed \in BOOLEAN :
                  IF removed THEN fileExists' = FALSE /\ cleanup' = "removed"
                             ELSE cleanup' = "failed" /\ UNCHANGED fileExists
          ELSE cleanup' = "skipped" /\ UNCHANGED fileExists
    /\ hpc' = "done"
    /\ UNCHANGED <<request, response, hRaised, file_path, title_html, body_html,
                   fileContent, buildResult, buildError, sentDocs, injVars>>

NoRequest == [json |-> "none", token |-> FALSE, telegramUserId |-> None_,
              telegram_user_id |-> None_, topic |-> None_, workTypeName |-> None_,
              work_type_name |-> None_, content |-> None_, contentFull |-> None_]

RefIdle ==
    /\ hpc = "idle"
    /\ request = NoRequest
    /\ response = 0
    /\ hRaised = FALSE
    /\ file_path = None_
    /\ title_html = <<>>
    /\ body_html = <<>>
    /\ fileExists = FALSE
    /\ fileContent = <<>>
    /\ buildResult = "none"
    /\ buildError = "none"
    /\ sentDocs = <<>>
    /\ cleanup = "none"

-----------------------------------------------------------------------------
(* main.py: the body of the document, build_word_doc_file lines 1812-1822 *)

\* re.sub(_replace, raw) of inject_ai_images_into_content from token `from`
\* on, when every generate_image_url_from_prompt call returns img_url and
\* every fetch of a picture ends as `fetch`.
RECURSIVE substitute(_, _, _, _)
substitute(t, from, img_url, fetch) ==
    LET m == Search(t, from)
    IN  IF ~m.ok THEN SubSeq(t, from, Len(t))
        ELSE Between(t, from, m)
                \o html_block(url_to_img_tag(img_url, fetch), m.index, Strip(m.group2),
                              Strip(m.group2))
                \o substitute(t, m.close + 1, img_url, fetch)

\* image_ai.py inject_ai_images_into_content as a function of its argument
\* and of what generation and fetching answer
inject_ai_images_into_content(raw_, img_url, fetch) ==
    IF raw_ = <<>> THEN <<>> ELSE substitute(raw_, 1, img_url, fetch)

\* cleaned, with_images and body_html of build_word_doc_file
assemble(content, img_url, fetch) ==
    ai_content_to_html_paragraphs(
        inject_ai_images_into_content(clean_ai_content(Str(content)), img_url, fetch),
        fetch)

AsmIdle ==
    /\ apc = "idle"
    /\ asmContent = <<>>
    /\ with_images = <<>>
    /\ asmBody = <<>>
    /\ asmAgain = <<>>

\* The body is assembled from the content; the pictures of its markers are
\* the placeholder, embedded or, its fetch failing, referred to.
Assemble ==
    /\ apc = "idle"
    /\ \E fetch \in FetchOutcomes :
          /\ with_images' = inject_ai_images_into_content(
                                clean_ai_content(Str(asmContent)), PLACEHOLDER_URL, fetch)
          /\ asmBody' = ai_content_to_html_paragraphs(with_images', fetch)
    /\ apc' = "once"
    /\ UNCHANGED <<asmContent, asmAgain>>

\* a content of plain prose: words and blanks on lines, nothing else
PlainProse(t) == t # <<>> /\ \A k \in 1..Len(t) : t[k] \in {"u", " ", "\n"}

\* the body of a content of plain prose is assembled once more, from the
\* body assembled before
Reassemble ==
    /\ apc = "once"
    /\ PlainProse(asmContent)
    /\ \E fetch \in FetchOutcomes :
          asmAgain' = assemble(asmBody, PLACEHOLDER_URL, fetch)
    /\ apc' = "twice"
    /\ UNCHANGED <<asmContent, with_images, asmBody>>

-----------------------------------------------------------------------------
(* main.py: the order handlers btn_cancel, photo_handler,                   *)
(* admin_approve_handler and admin_reject_handler                           *)

\* The dispatcher runs every update in a task of its own, so the handlers of
\* one order interleave at their awaits.  One order of one user is followed;
\* create_order has stored it with the status waiting_for_screenshot.

\* Clicks on the approve button of the order.
MaxClicks == 2

Clicks == 1..MaxClicks

\* get_pending_order_for_user, lines 342-356: the row of the user's order
\* that waits for its screenshot, None if there is none or the query failed
get_pending_order_for_user ==
    IF orderStatus = "waiting_for_screenshot" THEN {"order", "none"} ELSE {"none"}

\* get_order, lines 319-326: the status column of the row, "none" for the
\* None of a failed query
get_order == {orderStatus, "none"}

\* set_order_status, lines 329-339, and the UPDATE of
\* attach_screenshot_to_order, lines 301-316: the status is written to the
\* row with the id whatever it holds, or the statement raises and nothing is
\* written
set_order_status(status, ok) ==
    IF ok THEN orderStatus' = status ELSE UNCHANGED orderStatus

\* btn_cancel, lines 789-790: the order of the user is looked up.
CancelLookup ==
    /\ cancelPc = "start"
    /\ \E row \in get_pending_order_for_user :
          /\ cancelRow' = row
          /\ cancelPc' = IF row = "order" THEN "set" ELSE "done"
    /\ UNCHANGED <<orderStatus, photoPc, photoRow, keyboard, approvePc, approveOrder,
                   file_sent, copyCalls, copies, rejectPc, rejectOrder, file_row>>

\* btn_cancel, lines 791-797: the order found is cancelled.
CancelSet ==
    /\ cancelPc = "set"
    /\ \E ok \in BOOLEAN : set_order_status("cancelled", ok)
    /\ cancelPc' = "done"
    /\ UNCHANGED <<cancelRow, photoPc, photoRow, keyboard, approvePc, approveOrder,
                   file_sent, copyCalls, copies, rejectPc, rejectOrder, file_row>>

\* photo_handler, lines 1050-1063: the order of the user is looked up.
PhotoLookup ==
    /\ photoPc = "start"
    /\ \E row \in get_pending_order_for_user :
          /\ photoRow' = row
          /\ photoPc' = IF row = "order" THEN "attach" ELSE "done"
    /\ UNCHANGED <<orderStatus, cancelPc, cancelRow, keyboard, approvePc, approveOrder,
                   file_sent, copyCalls, copies, rejectPc, rejectOrder, file_row>>

\* photo_handler, lines 1065-1067 and 1075-1081: the screenshot is attached
\* and the order goes to the admin, or the exception of the UPDATE ends the
\* handler.
PhotoAttach ==
    /\ photoPc = "attach"
    /\ \E ok \in BOOLEAN :
          /\ set_order_status("pending_admin", ok)
          /\ photoPc' = IF ok THEN "notify" ELSE "done"
    /\ UNCHANGED <<cancelPc, cancelRow, photoRow, keyboard, approvePc, approveOrder,
                   file_sent, copyCalls, copies, rejectPc, rejectOrder, file_row>>

\* photo_handler, lines 1069-1122: the order and its file are read and
\* bot.send_photo brings the admin the screenshot with the buttons of
\* admin_order_kb(order_id), unless a read or the sending fails.
PhotoNotify ==
    /\ photoPc = "notify"
    /\ \E sent \in BOOLEAN : keyboard' = (keyboard \/ sent)
    /\ photoPc' = "done"
    /\ UNCHANGED <<orderStatus, cancelPc, cancelRow, photoRow, approvePc, approveOrder,
                   file_sent, copyCalls, copies, rejectPc, rejectOrder, file_row>>

\* admin_approve_handler, lines 1133-1147: click c on the approve button; the
\* order is read and the handler ends unless its status is pending_admin.
ApproveLookup(c) ==
    /\ keyboard
    /\ approvePc[c] = "start"
    /\ \E order \in get_order :
          /\ approveOrder' = [approveOrder EXCEPT ![c] = order]
          /\ approvePc' = [approvePc EXCEPT
                              ![c] = IF order = "pending_admin" THEN "set" ELSE "done"]
    /\ UNCHANGED <<orderStatus, cancelPc, cancelRow, photoPc, photoRow, keyboard,
                   file_sent, copyCalls, copies, rejectPc, rejectOrder, file_row>>

\* admin_approve_handler, lines 1149-1155: the order is approved and its file
\* row read; an exception ends the handler in its except branch.
ApproveSet(c) ==
    /\ approvePc[c] = "set"
    /\ \E ok \in BOOLEAN :
          /\ set_order_status("approved", ok)
          /\ approvePc' = [approvePc EXCEPT ![c] = IF ok THEN "main" ELSE "done"]
    /\ UNCHANGED <<cancelPc, cancelRow, photoPc, photoRow, keyboard, approveOrder,
                   file_sent, copyCalls, copies, rejectPc, rejectOrder, file_row>>

\* bot.copy_message from `channel` to the buyer in click c: the buyer gets a
\* copy of the file, or the call raises and is logged
CopyMessage(c, channel) ==
    \E ok \in BOOLEAN :
       /\ copyCalls' = [copyCalls EXCEPT ![c] = @ \cup {<<channel, ok>>}]
       /\ IF ok THEN /\ copies' = copies + 1
                     /\ file_sent' = [file_sent EXCEPT ![c] = TRUE]
                ELSE UNCHANGED <<copies, file_sent>>

\* admin_approve_handler, lines 1160-1169: the copy from the main channel, if
\* the file has a message there.
ApproveCopyMain(c) ==
    /\ approvePc[c] = "main"
    /\ IF file_row.channel_message_id
          THEN CopyMessage(c, "main")
          ELSE UNCHANGED <<copyCalls, copies, file_sent>>
    /\ approvePc' = [approvePc EXCEPT ![c] = "backup"]
    /\ UNCHANGED <<orderStatus, cancelPc, cancelRow, photoPc, photoRow, keyboard,
                   approveOrder, rejectPc, rejectOrder, file_row>>

\* admin_approve_handler, lines 1171-1216: the copy from the backup channel,
\* if no file was sent and the file has a message there; then the messages to
\* the buyer and the admin, which change nothing here.
ApproveCopyBackup(c) ==
    /\ approvePc[c] = "backup"
    /\ IF ~file_sent[c] /\ file_row.backup_channel_message_id
          THEN CopyMessage(c, "backup")
          ELSE UNCHANGED <<copyCalls, copies, file_sent>>
    /\ approvePc' = [approvePc EXCEPT ![c] = "done"]
    /\ UNCHANGED <<orderStatus, cancelPc, cancelRow, photoPc, photoRow, keyboard,
                   approveOrder, rejectPc, rejectOrder, file_row>>

\* admin_reject_handler, lines 1229-1241: the order is read and the handler
\* ends if there is none or its status is approved or rejected.
RejectLookup ==
    /\ keyboard
    /\ rejectPc = "start"
    /\ \E order \in get_order :
          /\ rejectOrder' = order
          /\ rejectPc' = IF order \in {"none", "approved", "rejected"} THEN "done" ELSE "set"
    /\ UNCHANGED <<orderStatus, cancelPc, cancelRow, photoPc, photoRow, keyboard,
                   approvePc, approveOrder, file_sent, copyCalls, copies, file_row>>

\* admin_reject_handler, lines 1243-1267: the order is rejected and the buyer
\* and the admin are told; an exception ends the handler in its except
\* branch.
RejectSet ==
    /\ rejectPc = "set"
    /\ \E ok \in BOOLEAN : set_order_status("rejected", ok)
    /\ rejectPc' = "done"
    /\ UNCHANGED <<cancelPc, cancelRow, photoPc, photoRow, keyboard, approvePc,
                   approveOrder, file_sent, copyCalls, copies, rejectOrder, file_row>>

\* No update of the order has come in yet.
OrdIdle ==
    /\ orderStatus = "waiting_for_screenshot"
    /\ cancelPc = "start"
    /\ cancelRow = "none"
    /\ photoPc = "start"
    /\ photoRow = "none"
    /\ keyboard = FALSE
    /\ approvePc = [c \in Clicks |-> "start"]
    /\ approveOrder = [c \in Clicks |-> "none"]
    /\ file_sent = [c \in Clicks |-> FALSE]
    /\ copyCalls = [c \in Clicks |-> {}]
    /\ copies = 0
    /\ rejectPc = "start"
    /\ rejectOrder = "none"
    /\ file_row = [channel_message_id |-> TRUE, backup_channel_message_id |-> TRUE]

-----------------------------------------------------------------------------
(* main.py: on_buy_callback and the orders of one user *)

\* BUY callbacks of the user.
MaxBuys == 2

Buys == 1..MaxBuys

\* get_pending_order_for_user, lines 342-356, on the orders of the user: the
\* ids the query can return; 0 is None, for no such order or a failed query.
\* Orders are numbered as they are created, the latest has the highest id.
PendingOrderIds ==
    LET waiting == {k \in 1..Len(orders) : orders[k] = "waiting_for_screenshot"}
    IN  IF waiting = {} THEN {0} ELSE {Max(waiting), 0}

\* on_buy_callback, lines 980-1004: the file and the pending order of the
\* user are looked up; without the file or with a pending order the handler
\* ends.
BuyLookup(b) ==
    /\ buyPc[b] = "start"
    /\ \E row \in BOOLEAN, pending \in PendingOrderIds :
          buyPc' = [buyPc EXCEPT ![b] = IF row /\ pending = 0 THEN "create" ELSE "done"]
    /\ UNCHANGED <<orders, buyerCancelPc, buyerCancelId, buyerPhotoPc, buyerPhotoId>>

\* on_buy_callback, lines 1006-1037, and create_order, lines 284-298: the
\* order is inserted with the status waiting_for_screenshot, or the INSERT
\* raises and the handler ends in its except branch.
BuyCreate(b) ==
    /\ buyPc[b] = "create"
    /\ \E ok \in BOOLEAN :
          orders' = IF ok THEN Append(orders, "waiting_for_screenshot") ELSE orders
    /\ buyPc' = [buyPc EXCEPT ![b] = "done"]
    /\ UNCHANGED <<buyerCancelPc, buyerCancelId, buyerPhotoPc, buyerPhotoId>>

\* btn_cancel, lines 789-791, on the orders of the user.
BuyerCancelLookup ==
    /\ buyerCancelPc = "start"
    /\ \E id \in PendingOrderIds :
          /\ buyerCancelId' = id
          /\ buyerCancelPc' = IF id # 0 THEN "set" ELSE "done"
    /\ UNCHANGED <<orders, buyPc, buyerPhotoPc, buyerPhotoId>>

\* btn_cancel, lines 792-797, on the orders of the user.
BuyerCancelSet ==
    /\ buyerCancelPc = "set"
    /\ \E ok \in BOOLEAN :
          orders' = IF ok THEN [orders EXCEPT ![buyerCancelId] = "cancelled"] ELSE orders
    /\ buyerCancelPc' = "done"
    /\ UNCHANGED <<buyPc, buyerCancelId, buyerPhotoPc, buyerPhotoId>>

\* photo_handler, lines 1050-1063, on the orders of the user.
BuyerPhotoLookup ==
    /\ buyerPhotoPc = "start"
    /\ \E id \in PendingOrderIds :
          /\ buyerPhotoId' = id
          /\ buyerPhotoPc' = IF id # 0 THEN "attach" ELSE "done"
    /\ UNCHANGED <<orders, buyPc, buyerCancelPc, buyerCancelId>>

\* photo_handler, lines 1065-1067, on the orders of the user.
BuyerPhotoAttach ==
    /\ buyerPhotoPc = "attach"
    /\ \E ok \in BOOLEAN :
          orders' = IF ok THEN [orders EXCEPT ![buyerPhotoId] = "pending_admin"] ELSE orders
    /\ buyerPhotoPc' = "done"
    /\ UNCHANGED <<buyPc, buyerCancelPc, buyerCancelId, buyerPhotoId>>

\* The user has no order and no update of theirs has come in.
BuyIdle ==
    /\ orders = <<>>
    /\ buyPc = [b \in Buys |-> "start"]
    /\ buyerCancelPc = "start"
    /\ buyerCancelId = 0
    /\ buyerPhotoPc = "start"
    /\ buyerPhotoId = 0


-----------------------------------------------------------------------------
(* main.py: main, the event loop the bot and the HTTP API share *)

\* Other updates and requests handled while one send_referat request is
\* followed.
MaxOther == 2

\* main, lines 2101-2116: the HTTP API and the polling of the bot run as
\* tasks of one event loop, and a task gives the loop to the others only at
\* an await.  handle_send_referat awaits request.json() and
\* bot.send_document; build_word_doc_file is a plain function called without
\* await (line 2031), and its requests.post, requests.get and time.sleep
\* calls return to the handler, never to the loop.  Another update is handled
\* while no send_referat request is running or while one is at an await.
OtherUpdate ==
    /\ hpc \in {"idle", "send", "done"}
    /\ nOther < MaxOther
    /\ nOther' = nOther + 1

LoopIdle == nOther = 0

-----------------------------------------------------------------------------
(* main.py: the admin modes and admin_forward_message *)

\* The messages of the admin are followed.  A handler changes the modes before
\* its first await, so each handler is one step; the broadcast loop awaits
\* every copy and is a step for each user.

\* Messages that admin_forward_message gets.
MaxMsgs == 3

\* Rows of the users table.
MaxUsers == 2

\* User ids the admin names: 0, which no user has, and the id of a user.
TargetIds == {0, 1}

\* What the dispatcher hands to admin_forward_message: a command no other
\* handler takes, a text and a message without text (a photo, a document).
\* Digits go to admin_enter_user_id and the texts of the buttons to the
\* handlers of the buttons.
MessageKinds == {"command", "text", "media"}

\* What the handler `by` finds armed when it leaves or enters the panel.
Cleared(by) ==
    [by |-> by, target |-> ADMIN_SEND_TARGET # {}, broadcast |-> ADMIN_BROADCAST_MODE]

NoClear == [by |-> "none", target |-> FALSE, broadcast |-> FALSE]

\* cmd_admin_panel, lines 649-666: the panel is opened and every mode is left.
cmd_admin_panel ==
    /\ ADMIN_PANEL_MODE' = TRUE
    /\ ADMIN_WAITING_TARGET_USER' = FALSE
    /\ ADMIN_SEND_TARGET' = {}
    /\ ADMIN_BROADCAST_MODE' = FALSE
    /\ lastClear' = Cleared("cmd_admin_panel")
    /\ UNCHANGED <<msgNo, msgKind, sendLog, bcPc, bcMsg, bcUsers, bcTried, bcSent,
                   bcReport, usersTable>>

\* Leaving the panel without leaving broadcast mode.
ExitPanelKeepsBroadcast ==
    /\ ADMIN_PANEL_MODE' = FALSE
    /\ ADMIN_SEND_TARGET' = {}
    /\ ADMIN_WAITING_TARGET_USER' = FALSE
    /\ lastClear' = Cleared("admin_exit_panel")
    /\ UNCHANGED <<ADMIN_BROADCAST_MODE, msgNo, msgKind, sendLog, bcPc, bcMsg, bcUsers,
                   bcTried, bcSent, bcReport, usersTable>>

\* admin_exit_panel, lines 806-817
admin_exit_panel ==
    /\ ADMIN_PANEL_MODE' = FALSE
    /\ ADMIN_BROADCAST_MODE' = FALSE
    /\ ADMIN_SEND_TARGET' = {}
    /\ ADMIN_WAITING_TARGET_USER' = FALSE
    /\ lastClear' = Cleared("admin_exit_panel")
    /\ UNCHANGED <<msgNo, msgKind, sendLog, bcPc, bcMsg, bcUsers, bcTried, bcSent,
                   bcReport, usersTable>>

\* admin_panel_broadcast_btn, lines 826-837, and admin_broadcast_command,
\* lines 1412-1430: broadcast mode is armed.
admin_broadcast_command ==
    /\ ADMIN_BROADCAST_MODE' = TRUE
    /\ UNCHANGED <<ADMIN_PANEL_MODE, ADMIN_WAITING_TARGET_USER, ADMIN_SEND_TARGET, msgNo,
                   msgKind, sendLog, bcPc, bcMsg, bcUsers, bcTried, bcSent, bcReport,
                   usersTable, lastClear>>

\* admin_panel_send_btn, lines 840-852: the admin is asked for a user id.
admin_panel_send_btn ==
    /\ ADMIN_WAITING_TARGET_USER' = TRUE
    /\ ADMIN_SEND_TARGET' = {}
    /\ UNCHANGED <<ADMIN_PANEL_MODE, ADMIN_BROADCAST_MODE, msgNo, msgKind, sendLog, bcPc,
                   bcMsg, bcUsers, bcTried, bcSent, bcReport, usersTable, lastClear>>

\* admin_enter_user_id, lines 855-873: a message of digits; it sets the send
\* target if a user id is waited for, else nothing happens.
admin_enter_user_id(target_user_id) ==
    /\ IF ADMIN_WAITING_TARGET_USER
          THEN /\ ADMIN_WAITING_TARGET_USER' = FALSE
               /\ ADMIN_SEND_TARGET' = {target_user_id}
          ELSE UNCHANGED <<ADMIN_WAITING_TARGET_USER, ADMIN_SEND_TARGET>>
    /\ UNCHANGED <<ADMIN_PANEL_MODE, ADMIN_BROADCAST_MODE, msgNo, msgKind, sendLog, bcPc,
                   bcMsg, bcUsers, bcTried, bcSent, bcReport, usersTable, lastClear>>

\* Arguments of /send: none, a word that is no number, or a user id.
SendArgs ==
    {<<>>, <<[isdigit |-> FALSE, int |-> 0]>>}
        \cup {<<[isdigit |-> TRUE, int |-> t]>> : t \in TargetIds}

\* admin_send_command, lines 1352-1390
admin_send_command(args) ==
    /\ IF args # <<>> /\ args[1].isdigit
          THEN /\ ADMIN_SEND_TARGET' = {args[1].int}
               /\ ADMIN_WAITING_TARGET_USER' = FALSE
          ELSE UNCHANGED <<ADMIN_WAITING_TARGET_USER, ADMIN_SEND_TARGET>>
    /\ UNCHANGED <<ADMIN_PANEL_MODE, ADMIN_BROADCAST_MODE, msgNo, msgKind, sendLog, bcPc,
                   bcMsg, bcUsers, bcTried, bcSent, bcReport, usersTable, lastClear>>

\* admin_cancel_send, lines 1393-1409
admin_cancel_send ==
    /\ ADMIN_SEND_TARGET' = {}
    /\ ADMIN_WAITING_TARGET_USER' = FALSE
    /\ UNCHANGED <<ADMIN_PANEL_MODE, ADMIN_BROADCAST_MODE, msgNo, msgKind, sendLog, bcPc,
                   bcMsg, bcUsers, bcTried, bcSent, bcReport, usersTable, lastClear>>

\* admin_cancel_broadcast, lines 1433-1446
admin_cancel_broadcast ==
    /\ ADMIN_BROADCAST_MODE' = FALSE
    /\ UNCHANGED <<ADMIN_PANEL_MODE, ADMIN_WAITING_TARGET_USER, ADMIN_SEND_TARGET, msgNo,
                   msgKind, sendLog, bcPc, bcMsg, bcUsers, bcTried, bcSent, bcReport,
                   usersTable, lastClear>>

\* admin_forward_message, lines 1506-1521: broadcast mode is left and the
\* users are read; the message msgNo' goes to the loop, or the read fails and
\* the handler ends.
BroadcastBegin ==
    /\ ADMIN_BROADCAST_MODE' = FALSE
    /\ \E fetched \in BOOLEAN :
          IF fetched
             THEN /\ bcPc' = "copy"
                  /\ bcMsg' = msgNo'
                  /\ bcUsers' = usersTable
                  /\ bcTried' = <<>>
                  /\ bcSent' = 0
                  /\ bcReport' = <<>>
             ELSE UNCHANGED <<bcPc, bcMsg, bcUsers, bcTried, bcSent, bcReport>>

\* admin_forward_message, lines 1451-1504 and the entry of the broadcast
\* branch: message msgNo + 1 of the admin, of the kind `kind`.  sendLog gets
\* the call of bot.copy_message for one user; whether the call raises changes
\* only the answer to the admin.  One broadcast is followed at a time.
admin_forward_message(kind) ==
    /\ msgNo < MaxMsgs
    /\ msgNo' = msgNo + 1
    /\ msgKind' = kind
    /\ IF \/ kind \notin {"text", "media"}
          \/ ADMIN_SEND_TARGET = {} /\ ~ADMIN_BROADCAST_MODE
          THEN UNCHANGED <<ADMIN_SEND_TARGET, ADMIN_BROADCAST_MODE, sendLog, bcPc, bcMsg,
                           bcUsers, bcTried, bcSent, bcReport>>
          ELSE IF ADMIN_SEND_TARGET # {}
          THEN /\ ADMIN_SEND_TARGET' = {}
               /\ LET target_user_id == CHOOSE t \in ADMIN_SEND_TARGET : TRUE
                  IN  IF target_user_id = 0
                         THEN UNCHANGED sendLog
                         ELSE sendLog' = Append(sendLog, <<msgNo', target_user_id>>)
               /\ UNCHANGED <<ADMIN_BROADCAST_MODE, bcPc, bcMsg, bcUsers, bcTried, bcSent,
                              bcReport>>
          ELSE /\ bcPc # "copy"
               /\ BroadcastBegin
               /\ UNCHANGED <<ADMIN_SEND_TARGET, sendLog>>
    /\ UNCHANGED <<ADMIN_PANEL_MODE, ADMIN_WAITING_TARGET_USER, usersTable, lastClear>>

\* A loop that ends at the first copy that raises.
BroadcastCopyStops ==
    /\ bcPc = "copy"
    /\ Len(bcTried) < Len(bcUsers)
    /\ bcTried' = Append(bcTried, bcUsers[Len(bcTried) + 1])
    /\ \E ok \in BOOLEAN :
          IF ok
             THEN /\ bcSent' = bcSent + 1
                  /\ UNCHANGED <<bcPc, bcReport>>
             ELSE /\ bcSent' = bcSent
                  /\ bcPc' = "done"
                  /\ bcReport' = <<Len(bcUsers), bcSent, Len(bcUsers) - bcSent>>
    /\ UNCHANGED <<ADMIN_PANEL_MODE, ADMIN_WAITING_TARGET_USER, ADMIN_SEND_TARGET,
                   ADMIN_BROADCAST_MODE, msgNo, msgKind, sendLog, bcMsg, bcUsers,
                   usersTable, lastClear>>

\* admin_forward_message, lines 1525-1534: bot.copy_message for the next user
\* of the list; a copy that raises is logged and the loop goes on.
BroadcastCopy ==
    /\ bcPc = "copy"
    /\ Len(bcTried) < Len(bcUsers)
    /\ bcTried' = Append(bcTried, bcUsers[Len(bcTried) + 1])
    /\ \E ok \in BOOLEAN : bcSent' = IF ok THEN bcSent + 1 ELSE bcSent
    /\ UNCHANGED <<ADMIN_PANEL_MODE, ADMIN_WAITING_TARGET_USER, ADMIN_SEND_TARGET,
                   ADMIN_BROADCAST_MODE, msgNo, msgKind, sendLog, bcPc, bcMsg, bcUsers,
                   bcReport, usersTable, lastClear>>

\* admin_forward_message, lines 1522 and 1536-1545: the loop is through and
\* the counts are reported: total, sent, failed.
BroadcastEnd ==
    /\ bcPc = "copy"
    /\ Len(bcTried) = Len(bcUsers)
    /\ LET total == Len(bcUsers)
       IN  bcReport' = <<total, bcSent, total - bcSent>>
    /\ bcPc' = "done"
    /\ UNCHANGED <<ADMIN_PANEL_MODE, ADMIN_WAITING_TARGET_USER, ADMIN_SEND_TARGET,
                   ADMIN_BROADCAST_MODE, msgNo, msgKind, sendLog, bcMsg, bcUsers, bcTried,
                   bcSent, usersTable, lastClear>>

\* lines 56-62: no mode is armed, and no message of the admin has come.
AdmIdle ==
    /\ ADMIN_SEND_TARGET = {}
    /\ ADMIN_BROADCAST_MODE = FALSE
    /\ ADMIN_PANEL_MODE = FALSE
    /\ ADMIN_WAITING_TARGET_USER = FALSE
    /\ msgNo = 0
    /\ msgKind = "none"
    /\ sendLog = <<>>
    /\ bcPc = "idle"
    /\ bcMsg = 0
    /\ bcUsers = <<>>
    /\ bcTried = <<>>
    /\ bcSent = 0
    /\ bcReport = <<>>
    /\ usersTable = <<>>
    /\ lastClear = NoClear

BotIdle == BuyIdle /\ LoopIdle /\ AdmIdle /\ PollIdle

-----------------------------------------------------------------------------
(* Input texts and specifications *)

\* Longest input text, in pieces.
MaxPieces == 4

MarkerHead(d) == <<"[", "RASM", " ", d, ":">>

\* The pieces input texts are made of: prose, a blank, a closing bracket, the
\* opening of a marker with index 1 and a whole marker with index 2.
Pieces ==
    {<<"u">>, <<" ">>, <<"]">>, MarkerHead("1"), MarkerHead("2") \o <<" ", "u", "]">>}

RECURSIVE Concat(_)
Concat(ps) == IF ps = <<>> THEN <<>> ELSE Head(ps) \o Concat(Tail(ps))

Texts == {Concat(ps) : ps \in SeqsUpTo(Pieces, MaxPieces)}

InjectNext ==
    \/ injPc = "idle" /\ \E r \in Texts : InjectCall(r)
            /\ UNCHANGED <<genVars, trVars, refVars, asmVars, ordVars, botVars>>
    \/ ScanEnd /\ UNCHANGED <<genVars, trVars, refVars, asmVars, ordVars, botVars>>
    \/ ReplaceBegin /\ UNCHANGED <<DEAPI_TOKEN, service, request_id, attempt,
                                   nSubmit, nPoll, nSleep, status_url, polledUrl,
                                   lastPoll, nJobPoll, nJobSleep, trVars, refVars,
                                   asmVars, ordVars, botVars>>
    \/ ReplaceBeginTranslating /\ UNCHANGED <<genVars, trVars, refVars, asmVars, ordVars, botVars>>
    \/ TranslateDesc /\ UNCHANGED <<DEAPI_TOKEN, service, request_id, attempt,
                                    nSubmit, nPoll, nSleep, status_url, polledUrl,
                                    lastPoll, nJobPoll, nJobSleep, refVars, asmVars,
                                    ordVars, botVars>>
    \/ Txt2ImgRequest /\ UNCHANGED <<trVars, injVars, refVars, asmVars, ordVars, botVars>>
    \/ PollStatus /\ UNCHANGED <<trVars, injVars, refVars, asmVars, ordVars, botVars>>
    \/ PollSleep /\ UNCHANGED <<trVars, injVars, refVars, asmVars, ordVars, botVars>>
    \/ ReplaceEnd /\ UNCHANGED <<refVars, asmVars, ordVars, botVars>>

GenNext ==
    \/ \E p \in Prompts : GenerateCall(p)
            /\ UNCHANGED <<DEAPI_TOKEN, service, request_id, attempt, nSubmit, nPoll,
                           nSleep, status_url, polledUrl, lastPoll, nJobPoll, nJobSleep,
                           trVars, injVars, refVars, asmVars, ordVars,
                           botVars>>
    \/ Txt2ImgRequest /\ UNCHANGED <<trVars, injVars, refVars, asmVars, ordVars, botVars>>
    \/ PollStatus /\ UNCHANGED <<trVars, injVars, refVars, asmVars, ordVars, botVars>>
    \/ PollSleep /\ UNCHANGED <<trVars, injVars, refVars, asmVars, ordVars, botVars>>

InitGen ==
    /\ DEAPI_TOKEN \in BOOLEAN
    /\ service \in Services
    /\ GenIdle
    /\ GROQ_API_KEY = TRUE
    /\ TrIdle
    /\ InjIdle
    /\ RefIdle
    /\ AsmIdle
    /\ OrdIdle
    /\ BotIdle

SpecGen == InitGen /\ [][GenNext]_vars

\* A service whose submissions always succeed and whose status endpoint
\* always answers `processing` with no result.  Every step of the call is a
\* blocking request with a timeout or a sleep of interval_sec seconds, so a
\* call that can take a step eventually takes it.
InitAlwaysProcessing ==
    /\ DEAPI_TOKEN \in BOOLEAN
    /\ service = "always_processing"
    /\ GenIdle
    /\ GROQ_API_KEY = TRUE
    /\ TrIdle
    /\ InjIdle
    /\ RefIdle
    /\ AsmIdle
    /\ OrdIdle
    /\ BotIdle

SpecAlwaysProcessing ==
    InitAlwaysProcessing /\ [][GenNext]_vars /\ WF_vars(GenNext)

InitTranslate ==
    /\ GROQ_API_KEY \in BOOLEAN
    /\ TrIdle
    /\ DEAPI_TOKEN = TRUE
    /\ service = "arbitrary"
    /\ GenIdle
    /\ InjIdle
    /\ RefIdle
    /\ AsmIdle
    /\ OrdIdle
    /\ BotIdle

TranslateNext ==
    /\ trPc = "idle"
    /\ \E text \in TrTexts : Translate(text, TrResponses)
    /\ UNCHANGED <<genVars, injVars, refVars, asmVars, ordVars, botVars>>

SpecTranslate == InitTranslate /\ [][TranslateNext]_vars

\* Marker substitution on every text of Texts, by either module, with or
\* without credentials, against a generation service that is ready at once
\* or cannot be reached.
InjectConfigs ==
    {[variant |-> "image_ai", token |-> TRUE, service |-> "ready", key |-> TRUE],
     [variant |-> "image_ai", token |-> TRUE, service |-> "unreachable", key |-> TRUE],
     [variant |-> "image_ai", token |-> FALSE, service |-> "ready", key |-> TRUE],
     [variant |-> "image_convert", token |-> TRUE, service |-> "ready", key |-> TRUE],
     [variant |-> "image_convert", token |-> TRUE, service |-> "unreachable", key |-> FALSE],
     [variant |-> "image_convert", token |-> FALSE, service |-> "ready", key |-> TRUE]}

InitInject ==
    /\ \E c \in InjectConfigs :
          /\ variant = c.variant
          /\ DEAPI_TOKEN = c.token
          /\ service = c.service
          /\ GROQ_API_KEY = c.key
    /\ GenIdle
    /\ TrIdle
    /\ injPc = "idle"
    /\ raw = <<>>
    /\ pos = 0
    /\ out = <<>>
    /\ cur = NoMatch
    /\ prompts = <<>>
    /\ RefIdle
    /\ AsmIdle
    /\ OrdIdle
    /\ BotIdle

SpecInject == InitInject /\ [][InjectNext]_vars

\* Most lines of the content of a request.
MaxLines == 2

\* The lines request contents are made of: prose, an empty line, an image
\* marker, a horizontal rule, a heading with its mark, a note, a table row,
\* the title of the references, bold text, a formula, and a character UTF-8
\* cannot encode.
ContentLines ==
    {<<"u">>, <<>>, MarkerHead("1") \o <<" ", "u", "]">>, <<"---">>, <<"#", " ", "u">>,
     <<"Izoh", ":", " ", "u">>, <<"|", "u", "|">>,
     <<"4", ".", " ", "Foydalanilgan adabiyotlar">>, <<"**", "u", "**">>,
     <<"$", "u", "$">>, <<LoneSurrogate>>}

Contents == {Join(ls, <<"\n">>) : ls \in SeqsUpTo(ContentLines, MaxLines)}

\* a complete request of an authorised caller
GoodRequest(c) ==
    [json |-> "object", token |-> TRUE, telegramUserId |-> Str(<<"1">>),
     telegram_user_id |-> None_, topic |-> Str(<<"u", " ", "1">>), workTypeName |-> None_,
     work_type_name |-> None_, content |-> c, contentFull |-> None_]

\* Requests: the complete ones, and those that differ from a complete one in
\* the body, the token or one field.
Requests ==
    LET g == GoodRequest(Str(<<"u">>))
    IN  {GoodRequest(Str(c)) : c \in Contents}
        \cup {[g EXCEPT !.json = "invalid"], [g EXCEPT !.json = "not_object"],
              [g EXCEPT !.token = FALSE],
              [g EXCEPT !.telegramUserId = None_],
              [g EXCEPT !.telegramUserId = None_, !.telegram_user_id = Str(<<" ", "2">>)],
              [g EXCEPT !.telegramUserId = Str(<<"u">>)],
              [g EXCEPT !.telegramUserId = Obj],
              [g EXCEPT !.telegramUserId = Float],
              [g EXCEPT !.topic = None_], [g EXCEPT !.topic = Obj],
              [g EXCEPT !.workTypeName = Str(<<"u">>)], [g EXCEPT !.workTypeName = Obj],
              [g EXCEPT !.work_type_name = Str(<<"u">>)],
              [g EXCEPT !.content = None_], [g EXCEPT !.content = Obj],
              [g EXCEPT !.content = None_, !.contentFull = Str(<<"u">>)]}

ReferatNext ==
    \/ hpc = "idle" /\ \E r \in Requests : HandleSendReferat(r)
            /\ UNCHANGED <<genVars, trVars, asmVars, ordVars, botVars>>
    \/ ScanEnd /\ UNCHANGED <<genVars, trVars, refVars, asmVars, ordVars, botVars>>
    \/ ReplaceBegin /\ UNCHANGED <<DEAPI_TOKEN, service, request_id, attempt,
                                   nSubmit, nPoll, nSleep, status_url, polledUrl,
                                   lastPoll, nJobPoll, nJobSleep, trVars, refVars,
                                   asmVars, ordVars, botVars>>
    \/ ReplaceBeginTranslating /\ UNCHANGED <<genVars, trVars, refVars, asmVars, ordVars, botVars>>
    \/ TranslateDesc /\ UNCHANGED <<DEAPI_TOKEN, service, request_id, attempt,
                                    nSubmit, nPoll, nSleep, status_url, polledUrl,
                                    lastPoll, nJobPoll, nJobSleep, refVars, asmVars,
                                    ordVars, botVars>>
    \/ Txt2ImgRequest /\ UNCHANGED <<trVars, injVars, refVars, asmVars, ordVars, botVars>>
    \/ PollStatus /\ UNCHANGED <<trVars, injVars, refVars, asmVars, ordVars, botVars>>
    \/ PollSleep /\ UNCHANGED <<trVars, injVars, refVars, asmVars, ordVars, botVars>>
    \/ ReplaceEnd /\ UNCHANGED <<refVars, asmVars, ordVars, botVars>>
    \/ BuildDocument /\ UNCHANGED <<genVars, trVars, asmVars, ordVars, botVars>>
    \/ WriteDocument /\ UNCHANGED <<genVars, trVars, asmVars, ordVars, botVars>>
    \/ SendDocument /\ UNCHANGED <<genVars, trVars, asmVars, ordVars, botVars>>
    \/ Cleanup /\ UNCHANGED <<genVars, trVars, asmVars, ordVars, botVars>>

\* One send_referat request, with the marker substitution of image_ai, which
\* main.py imports, or of image_convert, which translates the description
\* first; with or without the generation credential; against a generation
\* service that is ready at once, cannot be reached or never finishes a job.
ReferatConfigs ==
    {[variant |-> "image_ai", token |-> TRUE, service |-> "ready", key |-> TRUE],
     [variant |-> "image_ai", token |-> TRUE, service |-> "unreachable", key |-> TRUE],
     [variant |-> "image_ai", token |-> TRUE, service |-> "always_processing", key |-> TRUE],
     [variant |-> "image_ai", token |-> FALSE, service |-> "ready", key |-> TRUE],
     [variant |-> "image_convert", token |-> TRUE, service |-> "ready", key |-> TRUE]}

InitReferat ==
    /\ \E c \in ReferatConfigs :
          /\ variant = c.variant
          /\ DEAPI_TOKEN = c.token
          /\ service = c.service
          /\ GROQ_API_KEY = c.key
    /\ GenIdle
    /\ TrIdle
    /\ injPc = "idle"
    /\ raw = <<>>
    /\ pos = 0
    /\ out = <<>>
    /\ cur = NoMatch
    /\ prompts = <<>>
    /\ RefIdle
    /\ AsmIdle
    /\ OrdIdle
    /\ BotIdle

SpecReferat == InitReferat /\ [][ReferatNext]_vars

\* Most lines of a content the body is assembled from.
MaxAsmLines == 3

\* Lines of such a content: prose, bare and padded; an empty line; an image
\* marker; rows and separator rows of tables of one and of two columns; the
\* References title, alone and followed by text; a main title and a
\* sub-heading; bold prose; a line that is markup already; and a note line.
AsmLines ==
    {<<"u">>, <<" ", "u", " ">>, <<>>, MarkerHead("1") \o <<" ", "u", "]">>,
     <<"|", "u", "|">>, <<"|", "---", "|">>,
     <<"|", "u", "|", "u", "|">>, <<"|", "---", "|", "---", "|">>,
     <<"4", ".", " ", "Foydalanilgan adabiyotlar">>,
     <<"4", ".", " ", "Foydalanilgan adabiyotlar", " ", "u">>,
     <<"1", ".", " ", "Kirish">>, <<"1", ".", "1", ".", " ", "u">>,
     <<"**", "u", "**">>, <<PageBreak>>, <<"Izoh", ":", " ", "u">>}

AsmInputs == {Join(ls, <<"\n">>) : ls \in SeqsUpTo(AsmLines, MaxAsmLines)}

AssembleNext ==
    \/ Assemble /\ UNCHANGED <<genVars, trVars, injVars, refVars, ordVars, botVars>>
    \/ Reassemble /\ UNCHANGED <<genVars, trVars, injVars, refVars, ordVars, botVars>>

InitAssemble ==
    /\ DEAPI_TOKEN = TRUE
    /\ service = "arbitrary"
    /\ GenIdle
    /\ GROQ_API_KEY = TRUE
    /\ TrIdle
    /\ InjIdle
    /\ RefIdle
    /\ apc = "idle"
    /\ asmContent \in AsmInputs
    /\ with_images = <<>>
    /\ asmBody = <<>>
    /\ asmAgain = <<>>
    /\ OrdIdle
    /\ BotIdle

\* The body of the document assembled from every content of AsmInputs, and
\* for the contents of plain prose assembled once more from the result.
SpecAssemble == InitAssemble /\ [][AssembleNext]_vars

\* The files row of the order: whether it names a message of the main channel
\* and one of the backup channel.
FileRows == [channel_message_id : BOOLEAN, backup_channel_message_id : BOOLEAN]

OrdersNext ==
    \/ CancelLookup /\ UNCHANGED <<genVars, trVars, injVars, refVars, asmVars, botVars>>
    \/ CancelSet /\ UNCHANGED <<genVars, trVars, injVars, refVars, asmVars, botVars>>
    \/ PhotoLookup /\ UNCHANGED <<genVars, trVars, injVars, refVars, asmVars, botVars>>
    \/ PhotoAttach /\ UNCHANGED <<genVars, trVars, injVars, refVars, asmVars, botVars>>
    \/ PhotoNotify /\ UNCHANGED <<genVars, trVars, injVars, refVars, asmVars, botVars>>
    \/ \E c \in Clicks : ApproveLookup(c)
            /\ UNCHANGED <<genVars, trVars, injVars, refVars, asmVars, botVars>>
    \/ \E c \in Clicks : ApproveSet(c)
            /\ UNCHANGED <<genVars, trVars, injVars, refVars, asmVars, botVars>>
    \/ \E c \in Clicks : ApproveCopyMain(c)
            /\ UNCHANGED <<genVars, trVars, injVars, refVars, asmVars, botVars>>
    \/ \E c \in Clicks : ApproveCopyBackup(c)
            /\ UNCHANGED <<genVars, trVars, injVars, refVars, asmVars, botVars>>
    \/ RejectLookup /\ UNCHANGED <<genVars, trVars, injVars, refVars, asmVars, botVars>>
    \/ RejectSet /\ UNCHANGED <<genVars, trVars, injVars, refVars, asmVars, botVars>>

InitOrders ==
    /\ DEAPI_TOKEN = TRUE
    /\ service = "arbitrary"
    /\ GenIdle
    /\ GROQ_API_KEY = TRUE
    /\ TrIdle
    /\ InjIdle
    /\ RefIdle
    /\ AsmIdle
    /\ orderStatus = "waiting_for_screenshot"
    /\ cancelPc = "start"
    /\ cancelRow = "none"
    /\ photoPc = "start"
    /\ photoRow = "none"
    /\ keyboard = FALSE
    /\ approvePc = [c \in Clicks |-> "start"]
    /\ approveOrder = [c \in Clicks |-> "none"]
    /\ file_sent = [c \in Clicks |-> FALSE]
    /\ copyCalls = [c \in Clicks |-> {}]
    /\ copies = 0
    /\ rejectPc = "start"
    /\ rejectOrder = "none"
    /\ file_row \in FileRows
    /\ BotIdle

SpecOrders == InitOrders /\ [][OrdersNext]_vars

\* The BUY callbacks, a cancel and a screenshot of one user, each update in a
\* task of its own; the user has no order or one that waits for its
\* screenshot.
BuyNext ==
    \/ \E b \in Buys : BuyLookup(b)
            /\ UNCHANGED <<genVars, trVars, injVars, refVars, asmVars, ordVars, loopVars,
                           admVars, pollVars>>
    \/ \E b \in Buys : BuyCreate(b)
            /\ UNCHANGED <<genVars, trVars, injVars, refVars, asmVars, ordVars, loopVars,
                           admVars, pollVars>>
    \/ BuyerCancelLookup
            /\ UNCHANGED <<genVars, trVars, injVars, refVars, asmVars, ordVars, loopVars,
                           admVars, pollVars>>
    \/ BuyerCancelSet
            /\ UNCHANGED <<genVars, trVars, injVars, refVars, asmVars, ordVars, loopVars,
                           admVars, pollVars>>
    \/ BuyerPhotoLookup
            /\ UNCHANGED <<genVars, trVars, injVars, refVars, asmVars, ordVars, loopVars,
                           admVars, pollVars>>
    \/ BuyerPhotoAttach
            /\ UNCHANGED <<genVars, trVars, injVars, refVars, asmVars, ordVars, loopVars,
                           admVars, pollVars>>

InitBuy ==
    /\ DEAPI_TOKEN = TRUE
    /\ service = "arbitrary"
    /\ GenIdle
    /\ GROQ_API_KEY = TRUE
    /\ TrIdle
    /\ InjIdle
    /\ RefIdle
    /\ AsmIdle
    /\ OrdIdle
    /\ orders \in {<<>>, <<"waiting_for_screenshot">>}
    /\ buyPc = [b \in Buys |-> "start"]
    /\ buyerCancelPc = "start"
    /\ buyerCancelId = 0
    /\ buyerPhotoPc = "start"
    /\ buyerPhotoId = 0
    /\ LoopIdle
    /\ AdmIdle
    /\ PollIdle

SpecBuy == InitBuy /\ [][BuyNext]_vars

\* One send_referat request and the other updates of the service on the one
\* event loop.
LoopNext ==
    \/ ReferatNext
    \/ OtherUpdate
            /\ UNCHANGED <<genVars, trVars, injVars, refVars, asmVars, ordVars, buyVars,
                           admVars, pollVars>>

SpecLoop == InitReferat /\ [][LoopNext]_vars

notAdmVars ==
    <<genVars, trVars, injVars, refVars, asmVars, ordVars, buyVars, loopVars, pollVars>>

\* The messages of the admin: the commands and buttons that set the modes, and
\* the messages admin_forward_message gets.

AdminNext ==
    \/ cmd_admin_panel /\ UNCHANGED notAdmVars
    \/ admin_exit_panel /\ UNCHANGED notAdmVars
    \/ admin_broadcast_command /\ UNCHANGED notAdmVars
    \/ admin_panel_send_btn /\ UNCHANGED notAdmVars
    \/ \E t \in TargetIds : admin_enter_user_id(t) /\ UNCHANGED notAdmVars
    \/ \E args \in SendArgs : admin_send_command(args) /\ UNCHANGED notAdmVars
    \/ admin_cancel_send /\ UNCHANGED notAdmVars
    \/ admin_cancel_broadcast /\ UNCHANGED notAdmVars
    \/ \E kind \in MessageKinds : admin_forward_message(kind) /\ UNCHANGED notAdmVars
    \/ BroadcastCopy /\ UNCHANGED notAdmVars
    \/ BroadcastEnd /\ UNCHANGED notAdmVars

InitAdmin ==
    /\ DEAPI_TOKEN = TRUE
    /\ service = "arbitrary"
    /\ GenIdle
    /\ GROQ_API_KEY = TRUE
    /\ TrIdle
    /\ InjIdle
    /\ RefIdle
    /\ AsmIdle
    /\ OrdIdle
    /\ BuyIdle
    /\ LoopIdle
    /\ ADMIN_SEND_TARGET = {}
    /\ ADMIN_BROADCAST_MODE = FALSE
    /\ ADMIN_PANEL_MODE = FALSE
    /\ ADMIN_WAITING_TARGET_USER = FALSE
    /\ msgNo = 0
    /\ msgKind = "none"
    /\ sendLog = <<>>
    /\ bcPc = "idle"
    /\ bcMsg = 0
    /\ bcUsers = <<>>
    /\ bcTried = <<>>
    /\ bcSent = 0
    /\ bcReport = <<>>
    /\ usersTable \in {[k \in 1..n |-> k] : n \in 0..MaxUsers}
    /\ lastClear = NoClear
    /\ PollIdle

SpecAdmin == InitAdmin /\ [][AdminNext]_vars

\* One iteration of the loop of _deapi_poll_result on every status response.
PollNext ==
    PollOnce /\ UNCHANGED <<genVars, trVars, injVars, refVars, asmVars, ordVars, buyVars,
                            loopVars, admVars>>

InitPoll ==
    /\ DEAPI_TOKEN = TRUE
    /\ service = "arbitrary"
    /\ GenIdle
    /\ GROQ_API_KEY = TRUE
    /\ TrIdle
    /\ InjIdle
    /\ RefIdle
    /\ AsmIdle
    /\ OrdIdle
    /\ BuyIdle
    /\ LoopIdle
    /\ AdmIdle
    /\ pollResp \in AllPollResponses
    /\ pollOut = NoOutcome

SpecPoll == InitPoll /\ [][PollNext]_vars

-----------------------------------------------------------------------------
(* Properties of generate_image_url_from_prompt *)

\* An HTTP(S) URL: a string whose first non-blank piece is the scheme http://
\* or https://, in either case.
HttpUrl(v) ==
    /\ v.t = "str"
    /\ \E i \in 1..Len(v.s) :
          /\ v.s[i] \in {"http://", "https://", "HTTP://", "HTTPS://"}
          /\ \A k \in 1..(i - 1) : v.s[k] = " "

\* C1: generate_image_url_from_prompt never raises, and what it returns is
\* PLACEHOLDER_URL or an HTTP(S) URL out of a status response, for every
\* behaviour of the remote service.
C1_NeverRaisesReturnsUrl ==
    /\ ~genRaised
    /\ gpc = "done" =>
          \/ genReturn = PLACEHOLDER_URL
          \/ genReturn \in FieldValues /\ HttpUrl(genReturn)

\* C1 witness: after a failed job, a later job's poll delivered a URL that
\* came with blanks around it and an upper-case scheme.
C1_Witness ==
    /\ gpc = "done"
    /\ service = "arbitrary"
    /\ job_attempt > 1
    /\ genReturn = UrlPadded

\* C2: against a service that always reports `processing`, the call sends at
\* most MAX_JOBS * max_attempts status polls, ends, and returns
\* PLACEHOLDER_URL.
C2_AlwaysProcessingTerminates ==
    /\ [](nPoll <= MAX_JOBS * max_attempts)
    /\ [](gpc = "done" => genReturn = PLACEHOLDER_URL /\ ~genRaised)
    /\ <>(gpc = "done")

\* C2 witness: the call ended after all 60 polls.
C2_Witness ==
    /\ DEAPI_TOKEN
    /\ gpc = "done"
    /\ nSubmit = MAX_JOBS
    /\ nPoll = MAX_JOBS * max_attempts

\* C8: without a credential the call returns PLACEHOLDER_URL in its first
\* step: it never enters the job loop, submits nothing, polls nothing and
\* never sleeps.
C8_NoCredentialShortCircuit ==
    ~DEAPI_TOKEN =>
        /\ gpc \in {"idle", "done"}
        /\ nSubmit = 0 /\ nPoll = 0 /\ nSleep = 0
        /\ gpc = "done" => genReturn = PLACEHOLDER_URL /\ ~genRaised

\* C8 witness: a call without credential has returned.
C8_Witness == ~DEAPI_TOKEN /\ gpc = "done" /\ genReturn = PLACEHOLDER_URL

-----------------------------------------------------------------------------
(* Properties of _translate_uz_to_en *)

Blank(v) == v.t = "str" /\ \A i \in 1..Len(v.s) : IsSpace(v.s[i])

\* The service answered with a translation: a string with a non-blank character.
NonEmptyTranslation(resp) ==
    /\ resp.kind = "ok"
    /\ resp.content.t = "str"
    /\ ~Blank(resp.content)

\* C9: _translate_uz_to_en raises nothing; it returns its argument unchanged
\* when the credential is missing or the service did not answer with a
\* non-empty translation; a blank argument is returned without any request.
C9_TranslationBestEffort ==
    trPc = "done" =>
        /\ ~trRaised
        /\ (~GROQ_API_KEY \/ ~NonEmptyTranslation(trResp)) => trReturn = trText
        /\ trReturn # trText => trCalls = 1 /\ trReturn = Str(Strip(trResp.content.s))
        /\ Blank(trText) => trCalls = 0 /\ trReturn = trText

\* C9 witness: the service answered with an empty list of choices and the
\* argument came back unchanged.
C9_Witness ==
    /\ trPc = "done"
    /\ GROQ_API_KEY
    /\ trResp.kind = "empty_choices"
    /\ trCalls = 1
    /\ trReturn = trText
    /\ ~Blank(trText)

-----------------------------------------------------------------------------
(* Properties of inject_ai_images_into_content *)

\* Token i of t opens an image marker [RASM <n>: <description>] whose digits
\* start at a, whose colon is at b and whose closing bracket is at e: white
\* space before the digits, a description of at least one character, no
\* closing bracket inside it.
IsMarker(t, i, a, b, e) ==
    /\ i + 2 < a /\ a < b /\ b + 1 < e /\ e <= Len(t)
    /\ t[i] = "[" /\ t[i + 1] = "RASM" /\ t[b] = ":" /\ t[e] = "]"
    /\ \A k \in (i + 2)..(a - 1) : IsSpace(t[k])
    /\ \A k \in a..(b - 1) : IsDigit(t[k])
    /\ \A k \in (b + 1)..(e - 1) : t[k] # "]"

\* the <<a, b, e>> with IsMarker(t, i, a, b, e); there is at most one
MarkerAt(t, i) ==
    IF ~(i + 1 <= Len(t) /\ t[i] = "[" /\ t[i + 1] = "RASM") THEN {}
    ELSE LET n == Len(t)
         IN  {x \in UNION {UNION {{<<a, b, e>> : e \in {e \in (b + 2)..n : t[e] = "]"}} :
                                     b \in {b \in (a + 1)..n : t[b] = ":"}} :
                                 a \in {a \in (i + 3)..n : IsDigit(t[a])}} :
                IsMarker(t, i, x[1], x[2], x[3])}

\* The marker occurrences of t from token i on, from left to right, none
\* overlapping the one before: each with its span, its index and its
\* description without the white space around it.
RECURSIVE MarkerList(_, _)
MarkerList(t, i) ==
    LET starts == {j \in i..Len(t) : MarkerAt(t, j) # {}}
    IN  IF starts = {} THEN <<>>
        ELSE LET j == CHOOSE x \in starts : \A y \in starts : x <= y
                 m == CHOOSE x \in MarkerAt(t, j) : TRUE
             IN  <<[start |-> j, close |-> m[3],
                    index |-> SubSeq(t, m[1], m[2] - 1),
                    desc |-> Strip(SubSeq(t, m[2] + 1, m[3] - 1))]>>
                     \o MarkerList(t, m[3] + 1)

\* the positions of the tokens of t that are in S, in increasing order
Positions(t, S) ==
    LET P == {i \in 1..Len(t) : t[i] \in S}
    IN  [k \in 1..Cardinality(P) |->
            CHOOSE p \in P : Cardinality({q \in P : q < p}) = k - 1]

\* C3: the output holds one image block per marker occurrence of the input:
\* as many containers, images and captions as markers, nested container >
\* image > caption, block after block, and the k-th block carries the index
\* of the k-th marker.
C3_OneBlockPerMarker ==
    injPc = "done" =>
        LET ms == MarkerList(raw, 1)
            n  == Len(ms)
            D  == Positions(out, {DivOpen})
            I  == Positions(out, {ImgEmbedded, ImgRemoteOpen})
            C  == Positions(out, {CaptionOpen})
            CC == Positions(out, {CaptionClose})
            DC == Positions(out, {DivClose})
        IN  /\ Len(D) = n /\ Len(I) = n /\ Len(C) = n /\ Len(CC) = n /\ Len(DC) = n
            /\ \A k \in 1..n :
                  /\ D[k] < I[k] /\ I[k] < C[k] /\ C[k] < CC[k] /\ CC[k] < DC[k]
                  /\ k < n => DC[k] < D[k + 1]
                  /\ SubSeq(out, C[k] + 3, C[k] + 5 + Len(ms[k].index))
                        = <<"Rasm", " ">> \o ms[k].index \o <<".">>

\* C3 witness: a text with two markers, of index 2 and then 1, was substituted.
C3_Witness ==
    /\ injPc = "done"
    /\ Len(MarkerList(raw, 1)) = 2
    /\ MarkerList(raw, 1)[1].index = <<"2">>
    /\ MarkerList(raw, 1)[2].index = <<"1">>
    /\ Len(Positions(out, {DivOpen})) = 2

\* C4: no marker text survives substitution: no token of the output opens a
\* marker.
C4_NoMarkerSurvives ==
    injPc = "done" => \A i \in 1..Len(out) : MarkerAt(out, i) = {}

\* the text of the k-th caption paragraph of t, without the white space around it
CaptionText(t, k) ==
    Strip(SubSeq(t, Positions(t, {CaptionOpen})[k] + 1,
                    Positions(t, {CaptionClose})[k] - 1))

\* C5: the k-th caption reads `Rasm <n>. <description>` with the index and
\* the trimmed description of the k-th marker, whatever translation and
\* generation returned; the translated text appears in the prompt only.
C5_CaptionFromMarker ==
    injPc = "done" =>
        LET ms == MarkerList(raw, 1)
        IN  /\ Len(prompts) = Len(ms)
            /\ Len(Positions(out, {CaptionOpen})) = Len(ms)
            /\ \A k \in 1..Len(ms) :
                  /\ CaptionText(out, k)
                        = Strip(<<"Rasm", " ">> \o ms[k].index \o <<".", " ">> \o ms[k].desc)
                  /\ IF variant = "image_ai"
                        THEN prompts[k] = ms[k].desc
                        ELSE prompts[k] \in {EnglishPrompt(ms[k].desc),
                                             EnglishPrompt(<<"e">>)}
            /\ \A i \in 1..Len(out) : out[i] \notin {"e", PromptHead, PromptTail}

\* C5 witness: the description was translated for the prompt and the caption
\* still reads as the marker does.
C5_Witness ==
    /\ injPc = "done"
    /\ variant = "image_convert"
    /\ Len(prompts) = 1
    /\ prompts[1] = EnglishPrompt(<<"e">>)
    /\ CaptionText(out, 1) = <<"Rasm", " ", "1", ".", " ", "u">>

\* t from token i on without the tokens of the spans k, k + 1, ..., each a
\* pair <<first, last>>, the spans in increasing order and apart
RECURSIVE OutsideFrom(_, _, _, _)
OutsideFrom(t, spans, k, i) ==
    IF k > Len(spans) THEN SubSeq(t, i, Len(t))
    ELSE SubSeq(t, i, spans[k][1] - 1) \o OutsideFrom(t, spans, k + 1, spans[k][2] + 1)

Outside(t, spans) == OutsideFrom(t, spans, 1, 1)

MarkerSpans(t) ==
    LET ms == MarkerList(t, 1) IN [k \in 1..Len(ms) |-> <<ms[k].start, ms[k].close>>]

\* An image block runs from the line break and indentation before its <div>
\* to the line break and indentation after its </div>.
BlockSpans(t) ==
    LET D  == Positions(t, {DivOpen})
        DC == Positions(t, {DivClose})
    IN  [k \in 1..Len(D) |-> <<D[k] - 2, DC[k] + 2>>]

\* C10: outside the image blocks the output is the input outside its marker
\* spans, token for token and in the same order; a text without markers
\* comes back as it was.
C10_OtherTextPreserved ==
    injPc = "done" =>
        /\ Len(Positions(out, {DivOpen})) = Len(Positions(out, {DivClose}))
        /\ Outside(out, BlockSpans(out)) = Outside(raw, MarkerSpans(raw))
        /\ MarkerList(raw, 1) = <<>> => out = raw

\* C10 witness: prose before, between and after two markers.
C10_Witness ==
    /\ injPc = "done"
    /\ Len(MarkerList(raw, 1)) = 1
    /\ MarkerList(raw, 1)[1].start > 1
    /\ MarkerList(raw, 1)[1].close < Len(raw)
    /\ raw[1] = "u"
    /\ raw[Len(raw)] = "u"

-----------------------------------------------------------------------------
(* Properties of build_word_doc_file and handle_send_referat *)

\* C6: build_word_doc_file completes with a full document whatever the
\* external services do: it raises only for a request field of the wrong type
\* or a failure of the local file operations, never for a failure of
\* substitution, generation, translation or asset fetch; and when it has
\* returned, the file at the returned path holds the cover page followed by
\* the body assembled from the substituted text, with one image block per
\* marker of the cleaned content.
C6_BuildCompletes ==
    /\ buildResult = "raised" => buildError \in {"type", "mkstemp", "write"}
    /\ hpc \in {"send", "finally"} => buildResult \in {"returned", "raised"}
    /\ hpc = "send" =>
          /\ buildResult = "returned"
          /\ fileExists
          /\ file_path = TempPath(Topic(request).s)
          /\ LET f == fileContent
                 b == Positions(f, {BodyOpen})
                 e == Positions(f, {BodyClose})
             IN  /\ Len(b) = 1 /\ Len(e) = 1 /\ b[1] < e[1]
                 /\ Len(Positions(title_html, {TitlePageOpen})) = 1
                 /\ \E fetch \in FetchOutcomes :
                       SubSeq(f, b[1] + 1, e[1] - 1)
                          = <<"\n", " ">> \o title_html \o <<"\n", " ">>
                                \o ai_content_to_html_paragraphs(out, fetch) \o <<"\n", " ">>
                 /\ Len(Positions(f, {DivOpen})) = Len(MarkerList(raw, 1))

\* C6 witness: the generation service could not be reached and the picture
\* could not be fetched, and the document was written with its image block.
C6_Witness ==
    /\ hpc = "send"
    /\ buildResult = "returned"
    /\ service = "unreachable"
    /\ Len(MarkerList(raw, 1)) = 1
    /\ \E i \in 1..(Len(fileContent) - 3) :
          SubSeq(fileContent, i, i + 3)
             = <<ImgRemoteOpen>> \o PLACEHOLDER_URL.s \o <<ImgRemoteClose>>

\* C7: when handle_send_referat has returned, the transient file of the
\* request is gone, unless os.remove itself failed.
C7_TransientFileRemoved ==
    hpc = "done" /\ cleanup # "failed" => ~fileExists

\* C11: a rendered image block passes the line classification unchanged: no
\* line of the block is wrapped as a plain paragraph, so the line behind the
\* opening tag of every caption in the body is the caption text itself.
C11_ImageBlockPassesThrough ==
    apc # "idle" =>
        \A i \in 1..Len(asmBody) :
            asmBody[i] = CaptionOpen =>
                /\ i + 2 <= Len(asmBody)
                /\ asmBody[i + 1] = "\n"
                /\ asmBody[i + 2] = "Rasm"

\* a pipe-delimited line whose cells are runs of dashes
DashRow(line) ==
    /\ IsTableRow(line)
    /\ \A k \in 1..Len(line) : line[k] \in {"|", "---", " "}
    /\ \E k \in 1..Len(line) : line[k] = "---"

\* a pipe-delimited line without a run of dashes
TextRow(line) == IsTableRow(line) /\ \A k \in 1..Len(line) : line[k] # "---"

\* C12: three pipe-delimited lines of which the second is a dash-separator
\* row become one table with one header row and one data row, whatever the
\* number of columns; the separator is no row of the table.
C12_SeparatorRowDropped ==
    apc # "idle" =>
        LET lines == splitlines(asmContent)
        IN  Len(lines) = 3 /\ TextRow(lines[1]) /\ DashRow(lines[2]) /\ TextRow(lines[3]) =>
                /\ Len(Positions(asmBody, {TableOpen})) = 1
                /\ Len(Positions(asmBody, {"<tr>"})) = 2
                /\ Len(Positions(asmBody, {"<th>"})) = Len(Positions(lines[1], {"|"})) - 1
                /\ Len(Positions(asmBody, {"<td>"})) = Len(Positions(lines[3], {"|"})) - 1
                /\ Positions(asmBody, {"---"}) = <<>>

\* the lines of the text t that open the References section
ReferencesLines(t) ==
    LET lines == splitlines(t)
    IN  {k \in 1..Len(lines) : ~IsTableRow(lines[k]) /\ IsReferencesTitle(Strip(lines[k]))}

\* the lines of the text t that are a forced page break already
PageBreakLines(t) ==
    LET lines == splitlines(t)
    IN  {k \in 1..Len(lines) : ~IsTableRow(lines[k]) /\ Strip(lines[k]) = <<PageBreak>>}

\* the title of the References section stands at token i of the body, right
\* behind a forced page break
BreakBeforeReferences(t, i) ==
    t[i] = MainTitleOpen /\ t[i + 1] = "4" =>
        i >= 3 /\ t[i - 1] = "\n" /\ t[i - 2] = PageBreak

BlocksInLineOrder(lines) ==
    \A k \in 1..(Len(lines) - 1) :
        ~(IsTableRow(lines[k]) /\ IsTableRow(lines[k + 1])) =>
            html_blocks(lines, 1, <<>>)
                = html_blocks(SubSeq(lines, 1, k), 1, <<>>)
                     \o html_blocks(SubSeq(lines, k + 1, Len(lines)), 1, <<>>)

\* C14: the blocks of the body stand in the order of the lines they come
\* from: whatever comes from the lines before a line boundary stands before
\* whatever comes from the lines behind it, a buffered table included, which
\* stands before the block of the first line that follows its rows.
C14_BlocksInLineOrder ==
    apc # "idle" /\ with_images # <<>> =>
        \E fetch \in FetchOutcomes :
            \E lines \in {splitlines(Bold(replace_latex_with_images(with_images, fetch), 1))} :
                /\ asmBody = Join(html_blocks(lines, 1, <<>>), <<"\n">>)
                /\ BlocksInLineOrder(lines)

\* C14 witness: a table row, a line of prose and another table row; the
\* body is a table, a paragraph and a second table, in this order.
C14_Witness ==
    /\ apc = "once"
    /\ asmContent = <<"|", "u", "|", "\n", "u", "\n", "|", "u", "|", "u", "|">>
    /\ LET tables == Positions(asmBody, {TableOpen})
           paras  == Positions(asmBody, {POpen})
       IN  /\ Len(tables) = 2 /\ Len(paras) = 1
           /\ tables[1] < paras[1] /\ paras[1] < tables[2]
           /\ Len(Positions(asmBody, {"<th>"})) = 3
           /\ asmBody[Len(asmBody)] = TableClose

\* the tokens of a content that are words of its text
Words == {"u", "Kirish", "Foydalanilgan adabiyotlar"}

\* C15: the body assembled from a content without markers holds no marker
\* and is a reformatting of the cleaned content: each word of a cleaned line
\* is in the body as often as in the cleaned content, none dropped and none
\* invented.
C15_PureReformatting ==
    apc # "idle" /\ ~Search(asmContent, 1).ok =>
        LET cleaned == clean_ai_content(Str(asmContent))
        IN  /\ ~Search(asmBody, 1).ok
            /\ \A w \in Words :
                  Len(Positions(asmBody, {w})) = Len(Positions(cleaned, {w}))

\* C16: on plain prose the assembly is idempotent: the body assembled from
\* the body of such a content is that body again, up to trailing white space.
C16_IdempotentOnProse ==
    apc = "twice" /\ PlainProse(asmContent) => RStrip(asmAgain) = RStrip(asmBody)

\* C16 witness: a padded line of prose, an empty line and a line of prose
\* were assembled to two paragraphs, and these were assembled once more.
C16_Witness ==
    /\ apc = "twice"
    /\ asmContent = <<" ", "u", " ", "\n", "\n", "u">>
    /\ asmBody = <<POpen, "u", PClose, "\n", POpen, "u", PClose>>
    /\ asmAgain = asmBody

\* C17: during one call of generate_image_url_from_prompt at most MAX_JOBS
\* jobs are submitted, at most max_attempts status polls are sent for one
\* job and at most MAX_JOBS * max_attempts in all, whatever the service does.
C17_BoundedSubmissionsAndPolls ==
    /\ nSubmit <= MAX_JOBS
    /\ nJobPoll <= max_attempts
    /\ nPoll <= MAX_JOBS * max_attempts

\* C17 witness: against a service free to answer anything, the call has
\* submitted its last job and sent the last poll of it, the sixtieth.
C17_Witness ==
    /\ service = "arbitrary"
    /\ gpc = "sleep"
    /\ nSubmit = MAX_JOBS
    /\ nJobPoll = max_attempts
    /\ nPoll = MAX_JOBS * max_attempts

\* the call is inside its job loop
InJobLoop == gpc \in {"submit", "poll", "sleep"}

\* One step of a call that is in job attempt k < MAX_JOBS: the attempt goes
\* on, or it is abandoned and attempt k + 1 begins, or the call returns the
\* URL the status response of this step held.
AttemptGoesOnOrNextBegins ==
    DEAPI_TOKEN /\ InJobLoop /\ job_attempt < MAX_JOBS =>
        \/ gpc' \in {"poll", "sleep"} /\ job_attempt' = job_attempt
        \/ gpc' = "submit" /\ job_attempt' = job_attempt + 1
        \/ gpc' = "done" /\ lastPoll'.url # None_ /\ genReturn' = lastPoll'.url

\* C18: with a credential, PLACEHOLDER_URL is returned only after MAX_JOBS
\* job attempts, the last of which failed as the ones before; a failure of an
\* attempt before the last only abandons that attempt and attempt k + 1
\* follows: no single failure ends the call.
C18_PlaceholderAfterAllJobs ==
    /\ [](DEAPI_TOKEN /\ gpc = "done" /\ genReturn = PLACEHOLDER_URL =>
              /\ job_attempt = MAX_JOBS
              /\ nSubmit = MAX_JOBS
              /\ lastPoll.url = None_)
    /\ [][AttemptGoesOnOrNextBegins]_vars

\* C18 witness: the placeholder was returned after five submissions, of which
\* some failed at once and some after one or more polls.
C18_Witness ==
    /\ DEAPI_TOKEN
    /\ service = "arbitrary"
    /\ gpc = "done"
    /\ genReturn = PLACEHOLDER_URL
    /\ nSubmit = MAX_JOBS
    /\ nPoll = 4
    /\ nSleep = 1
    /\ request_id = None_

\* A step that sends a status poll: it is sent for the job whose submission
\* was the latest and succeeded, to the address of the request id that
\* submission returned, and it leaves the request id alone.
PollUsesLatestRequestId ==
    nPoll' = nPoll + 1 =>
        /\ gpc = "poll"
        /\ Truthy(request_id)
        /\ polledUrl' = Str(<<"/request-status/">> \o PyStr(request_id))
        /\ request_id' = request_id /\ nSubmit' = nSubmit

\* A step that submits a job: no job is being polled when it is taken, and
\* if the submission fails no poll follows for it: the next attempt begins,
\* or the call ends after the last.
SubmissionWhenNoJobOutstanding ==
    nSubmit' = nSubmit + 1 =>
        /\ gpc = "submit" /\ nPoll' = nPoll
        /\ IF Truthy(request_id')
              THEN gpc' = "poll" /\ job_attempt' = job_attempt /\ nJobPoll' = 0
              ELSE \/ gpc' = "submit" /\ job_attempt' = job_attempt + 1
                   \/ gpc' = "done" /\ job_attempt = MAX_JOBS

\* C19: every status poll uses the request id the most recent submission of
\* the call returned, which succeeded; a failed submission is followed by no
\* poll for its attempt but by the next attempt; a new job is submitted only
\* when the job before it was abandoned.
C19_PollsFollowLatestSubmission ==
    /\ [][PollUsesLatestRequestId]_vars
    /\ [][SubmissionWhenNoJobOutstanding]_vars
    /\ [](gpc \in {"poll", "sleep"} => Truthy(request_id))

\* C19 witness: the third attempt is polled for the first time, with a
\* request id other than the one polled before, and one of the two attempts
\* before it failed at its submission.
C19_Witness ==
    /\ service = "arbitrary"
    /\ gpc = "sleep"
    /\ job_attempt = 3 /\ nSubmit = 3
    /\ nPoll = 3 /\ nJobPoll = 1 /\ nSleep = 1
    /\ request_id = Obj
    /\ polledUrl = Str(<<"/request-status/", "{}">>)

\* C20: when a status response holds an HTTP(S) URL, the call returns that
\* URL at once, whatever status came with it: the call has ended with this
\* response as its latest, so no poll, sleep or submission follows it.
C20_UrlReturnedAtOnce ==
    lastPoll.url # None_ =>
        /\ HttpUrl(lastPoll.url)
        /\ gpc = "done"
        /\ ~genRaised
        /\ genReturn = lastPoll.url

\* C20 witness: the second poll of the first job held a URL with blanks
\* around it together with a status that tells of a job still in progress,
\* and the call returned that URL after one sleep.
C20_Witness ==
    /\ gpc = "done"
    /\ lastPoll = [url |-> UrlPadded, malformed |-> None_, status |-> "processing"]
    /\ genReturn = UrlPadded
    /\ nSubmit = 1 /\ nPoll = 2 /\ nSleep = 1

\* C21: a status response whose result is not empty and no HTTP(S) URL is
\* taken as "not ready": its result is not returned, the job is not
\* abandoned, and while poll attempts remain the call goes on to sleep and
\* poll the same job again, whatever status came with the result.
C21_MalformedResultPollsOn ==
    lastPoll.malformed # None_ =>
        /\ genReturn # lastPoll.malformed
        /\ nJobPoll < max_attempts => gpc = "sleep"

\* C22: sleeps happen only between polls of the same job: a sleep follows a
\* poll whose status tells of a job in progress, every sleep is followed by
\* another poll of the same job, and so a job polled n times has slept at
\* most n - 1 times when no further poll of it is to come.
C22_SleepsOnlyBetweenPolls ==
    /\ [](gpc # "poll" /\ nJobPoll > 0 => nJobSleep <= nJobPoll - 1)
    /\ [][nSleep' = nSleep + 1 => lastPoll.status \in InProgress /\ gpc' = "poll"]_vars

\* the prompt the k-th invocation is to get for the marker description desc
PromptFor(desc, p) ==
    IF variant = "image_ai" THEN p = desc
    ELSE p \in {EnglishPrompt(desc), EnglishPrompt(<<"e">>)}

\* C23: the markers are resolved one after the other and without a cache:
\* the invocations of generate_image_url_from_prompt made so far are for the
\* first markers of the text in their order, one for each occurrence, all of
\* them when the substitution is done; an invocation begins only when none is
\* running and no translation request is open, and a generation request is
\* only sent inside the invocation for the latest marker taken up.
C23_MarkersOneByOne ==
    /\ [](LET ms == MarkerList(raw, 1)
          IN  /\ Len(prompts) <= Len(ms)
              /\ \A k \in 1..Len(prompts) : PromptFor(ms[k].desc, prompts[k])
              /\ injPc = "done" => Len(prompts) = Len(ms)
              /\ gpc # "idle" => injPc = "generate" /\ prompt = prompts[Len(prompts)]
              /\ injPc = "translate" => gpc = "idle" /\ trPc = "idle")
    /\ [][Len(prompts') = Len(prompts) + 1 =>
              gpc = "idle" /\ injPc \in {"scan", "translate"} /\ gpc' # "idle"]_vars

\* C23 witness: a text with the same marker twice was substituted, and the
\* same prompt was handed to the generation twice.
C23_Witness ==
    /\ injPc = "done"
    /\ variant = "image_ai"
    /\ service = "unreachable"
    /\ Len(MarkerList(raw, 1)) = 2
    /\ prompts = <<<<"u">>, <<"u">>>>

\* C24: no unfinished document is sent: a document is sent only when
\* build_word_doc_file has returned, and what is sent is the whole document
\* as it was put together; when the handler is left, either one document was
\* sent and the response is 200, or the response is a 4xx or 5xx status and
\* no document was sent.
C24_WholeDocumentOrFailure ==
    /\ sentDocs # <<>> =>
          /\ Len(sentDocs) = 1
          /\ buildResult = "returned"
          /\ sentDocs[1] = Document(Topic(request).s, WorkTypeName(request).s,
                                    title_html, body_html)
          /\ response = 200
    /\ hpc = "done" =>
          \/ response = 200 /\ Len(sentDocs) = 1
          \/ response \in 400..599 /\ sentDocs = <<>>

\* C24 witness: one request was answered with 200 after its document, which
\* holds an image block, was sent.
C24_Witness ==
    /\ hpc = "done"
    /\ response = 200
    /\ Len(sentDocs) = 1
    /\ DivOpen \in {sentDocs[1][i] : i \in 1..Len(sentDocs[1])}

\* a line that opens a note: Izoh or Eslatma and a colon
NoteLine(line) ==
    LET s == Strip(line)
    IN  /\ Len(s) >= 2
        /\ FoldCase(s[1]) \in {"Izoh", "Eslatma"}
        /\ s[SkipSpaces(s, 2)] = ":"

\* a line that opens a section: a main title or a sub-heading
SectionLine(line) ==
    \/ IsMainTitle(Strip(line), "1", "Kirish")
    \/ IsReferencesTitle(Strip(line))
    \/ IsSubTitle(Strip(line))

\* index of the note line that opens the trailing note block of the lines:
\* no section opens behind it; Len(lines) + 1 if there is no such line
TrailingNote(lines) ==
    Min({n \in 1..(Len(lines) + 1) :
            /\ n <= Len(lines) => NoteLine(lines[n])
            /\ \A m \in (n + 1)..Len(lines) : ~SectionLine(lines[m])})

\* C25: the cleanup strips a note only as the trailing block of the text:
\* every line of prose, every note line and every section line that stands
\* before the trailing note block is a line of the cleaned text, also when it
\* comes behind an earlier note line.
C25_OnlyTrailingNoteStripped ==
    apc # "idle" =>
        LET lines == splitlines(asmContent)
            kept  == {Strip(l) : l \in {splitlines(with_images)[k] :
                                          k \in 1..Len(splitlines(with_images))}}
        IN  \A k \in 1..(TrailingNote(lines) - 1) :
               (lines[k] = <<"u">> \/ NoteLine(lines[k]) \/ SectionLine(lines[k]))
                   => Strip(lines[k]) \in kept

\* the whole line is the title of one of the four main sections
ExactMainTitle(stripped) ==
    \/ IsMainTitle(stripped, "1", "Kirish")
    \/ IsMainTitle(stripped, "2", "Asosiy qism")
    \/ IsMainTitle(stripped, "3", "Xulosa")
    \/ IsMainTitle(stripped, "4", "Foydalanilgan adabiyotlar")

\* C26: main headings are recognised by exact match only: the body holds one
\* main heading for each line of the cleaned content that is, trimmed, the
\* title of a main section, and a line that goes on behind such a title is
\* no heading and stands in the body with all its text.
C26_MainTitlesByExactMatch ==
    apc # "idle" =>
        LET lines == splitlines(with_images)
            exact == {k \in 1..Len(lines) :
                        ~IsTableRow(lines[k]) /\ ExactMainTitle(Strip(lines[k]))}
        IN  /\ Len(Positions(asmBody, {MainTitleOpen})) = Cardinality(exact)
            /\ \A k \in 1..Len(lines) :
                  (IsReferencesTitle(Strip(lines[k])) /\ k \notin exact) =>
                      \E i \in 1..Len(asmBody) :
                         SubSeq(asmBody, i, i + Len(Strip(lines[k])) - 1) = Strip(lines[k])

\* a line of the cleaned content that is prose: not blank, no table row, no
\* main title, no sub-heading, and not beginning with markup
ProseLine(line) ==
    LET stripped == Strip(line)
    IN  /\ stripped # <<>>
        /\ ~IsTableRow(line)
        /\ ~IsMainTitle(stripped, "1", "Kirish")
        /\ ~IsMainTitle(stripped, "2", "Asosiy qism")
        /\ ~IsMainTitle(stripped, "3", "Xulosa")
        /\ ~IsReferencesTitle(stripped)
        /\ ~IsSubTitle(stripped)
        /\ stripped[1] \notin MarkupTokens

\* C27: every prose line of the cleaned content, a line that begins with
\* bold text included, is one plain paragraph of the body, and no other line
\* is one: the body holds as many plain paragraphs as the cleaned content
\* has prose lines.
C27_ProseLinesAreParagraphs ==
    apc # "idle" =>
        LET lines == splitlines(with_images)
        IN  Len(Positions(asmBody, {POpen}))
               = Cardinality({k \in 1..Len(lines) : ProseLine(lines[k])})

\* the table rows of the lines that are no separator rows, in their order
TextRows(lines) == SelectSeq(lines, LAMBDA l : IsTableRow(l) /\ ~DashRow(l))

\* first lines of the maximal runs of table rows that hold a row that is no
\* separator row
TableRuns(lines) ==
    {k \in 1..Len(lines) :
        /\ IsTableRow(lines[k])
        /\ k = 1 \/ ~IsTableRow(lines[k - 1])
        /\ \E m \in k..Len(lines) :
              /\ \A j \in k..m : IsTableRow(lines[j])
              /\ ~DashRow(lines[m])}

\* number of cells of the table row that opens at token i of the body
RowWidth(t, i) ==
    LET close == Min({j \in i..Len(t) : t[j] = "</tr>"})
    IN  Cardinality({j \in i..close : t[j] \in {"<th>", "<td>"}})

\* C28: each maximal run of table rows becomes at most one table: the body
\* holds one table for each run with a row that is no separator row, and none
\* for a run of separator rows only; the rows of the tables are the rows of
\* the cleaned content that are no separator rows, each once and in their
\* order, also those of a run that a blank line or the end of the text ends;
\* the first row of each table, and no other, is a header row.
C28_OneTablePerRun ==
    apc # "idle" =>
        LET lines == splitlines(with_images)
            rows  == TextRows(lines)
            tr    == Positions(asmBody, {"<tr>"})
        IN  /\ Len(Positions(asmBody, {TableOpen})) = Cardinality(TableRuns(lines))
            /\ Len(Positions(asmBody, {TableClose})) = Cardinality(TableRuns(lines))
            /\ Len(tr) = Len(rows)
            /\ \A k \in 1..Len(tr) :
                  /\ RowWidth(asmBody, tr[k]) = Len(Positions(Strip(rows[k]), {"|"})) - 1
                  /\ asmBody[tr[k] + 1] = "<th>" <=> asmBody[tr[k] - 2] = TableOpen

-----------------------------------------------------------------------------
(* Properties of the order handlers *)

\* the changes of status an order may make
StatusEdges ==
    {<<"waiting_for_screenshot", "pending_admin">>,
     <<"waiting_for_screenshot", "cancelled">>,
     <<"pending_admin", "approved">>,
     <<"pending_admin", "rejected">>}

\* C29: under every interleaving of the cancel, photo, approve and reject
\* handlers of an order its status changes only from waiting_for_screenshot
\* to pending_admin or cancelled and from pending_admin to approved or
\* rejected; approved, rejected and cancelled are never left.
C29_StatusFollowsEdges ==
    [][orderStatus' # orderStatus => <<orderStatus, orderStatus'>> \in StatusEdges]_vars

\* C30: under every interleaving of approve clicks and the reject handler the
\* buyer gets at most one copy of the file of the order, and a click calls
\* for the copy from the backup channel only if its copy from the main
\* channel was not sent.
C30_FileDeliveredAtMostOnce ==
    /\ copies <= 1
    /\ \A c \in Clicks :
          (\E ok \in BOOLEAN : <<"backup", ok>> \in copyCalls[c])
              => <<"main", TRUE>> \notin copyCalls[c]

\* the orders of the user that wait for their screenshot
WaitingOrders == {k \in 1..Len(orders) : orders[k] = "waiting_for_screenshot"}

\* C31: under every interleaving of the BUY callbacks, the cancel and the
\* screenshot of a user, at most one order of the user has the status
\* waiting_for_screenshot.
C31_OneWaitingOrder == Cardinality(WaitingOrders) <= 1

\* C32: an order is not left approved without its file: when no approve
\* handler is at work any more, an order with the status approved has had a
\* copy of its file sent to the buyer, from the main or the backup channel.
C32_ApprovedHasFile ==
    (orderStatus = "approved" /\ \A c \in Clicks : approvePc[c] \in {"start", "done"})
        => copies >= 1

\* C33: an order in pending_admin can be resolved: when photo_handler has
\* moved the order to pending_admin and has returned, the admin has the
\* message with the approve and reject buttons of the order.
C33_PendingAdminHasPrompt ==
    (orderStatus = "pending_admin" /\ photoPc = "done") => keyboard

\* handle_send_referat is inside build_word_doc_file, in a generation call
\* that submits, polls or sleeps
BuildingDocument == hpc = "inject" /\ gpc \in {"submit", "poll", "sleep"}

\* C34: a document build does not stop the rest of the service: while
\* handle_send_referat builds a document, submitting jobs, polling and
\* sleeping between the polls, another update or request can be handled.
C34_BuildLeavesLoopFree ==
    (BuildingDocument /\ nOther < MaxOther) =>
        ENABLED (OtherUpdate /\ UNCHANGED <<genVars, trVars, injVars, refVars, asmVars,
                                           ordVars, buyVars, admVars, pollVars>>)

-----------------------------------------------------------------------------
(* Properties of the admin modes *)

\* The step handles a message of the admin that can be forwarded: a text that
\* is no command, or a message without text.
ForwardableMessage == msgNo' = msgNo + 1 /\ msgKind' \in {"text", "media"}

\* The step attempts the copy of the message it handles to the user t.
CopiedTo(t) ==
    /\ Len(sendLog') = Len(sendLog) + 1
    /\ sendLog'[Len(sendLog')][1] = msgNo'
    /\ sendLog'[Len(sendLog')][2] = t

\* The step starts a broadcast of the message it handles.
BroadcastStarted == msgNo' = msgNo + 1 /\ bcPc' = "copy" /\ bcMsg' = msgNo'

\* C35: the send mode for one user is one-shot: with a send target armed, the
\* next message that can be forwarded is copied to the target, with success or
\* not, and the target is cleared; a message that cannot be forwarded leaves
\* the target armed; without a target no message is copied to one user; and a
\* message that comes while a target is armed starts no broadcast.
C35_SendModeOneShot ==
    [][/\ (ForwardableMessage /\ ADMIN_SEND_TARGET # {}) =>
              /\ ADMIN_SEND_TARGET' = {}
              /\ \E t \in ADMIN_SEND_TARGET : CopiedTo(t)
       /\ (msgNo' = msgNo + 1 /\ ~ForwardableMessage) =>
              /\ ADMIN_SEND_TARGET' = ADMIN_SEND_TARGET
              /\ sendLog' = sendLog
       /\ ADMIN_SEND_TARGET = {} => sendLog' = sendLog
       /\ ADMIN_SEND_TARGET # {} => ~BroadcastStarted]_vars

\* C36: a broadcast is one-shot and complete: the step that starts it finds
\* broadcast mode armed and leaves it disarmed, with no copy attempted yet, so
\* that a following message is broadcast only if the mode is armed again; the
\* loop attempts the copies in the order of the users it read, one for each;
\* and once the counts are reported a copy has been attempted for every user
\* of the users table exactly once, whatever copies failed, and the report
\* holds total, sent and failed with sent + failed = total.
C36_BroadcastOneShotComplete ==
    /\ [](/\ bcPc = "copy" => \A k \in 1..Len(bcTried) : bcTried[k] = bcUsers[k]
          /\ bcPc = "done" =>
                /\ bcTried = usersTable
                /\ \A u \in 1..MaxUsers :
                      Cardinality({k \in 1..Len(bcTried) : bcTried[k] = u})
                          = Cardinality({k \in 1..Len(usersTable) : usersTable[k] = u})
                /\ bcReport = <<Len(usersTable), bcSent, Len(usersTable) - bcSent>>
                /\ bcReport[2] + bcReport[3] = bcReport[1]
                /\ bcReport[2] >= 0 /\ bcReport[3] >= 0)
    /\ [][BroadcastStarted =>
              /\ ADMIN_BROADCAST_MODE
              /\ ~ADMIN_BROADCAST_MODE'
              /\ bcTried' = <<>>]_vars

\* A broadcast to two users is through with a copy that failed, and a later
\* message of the admin has been handled.
C36_Witness ==
    /\ bcPc = "done"
    /\ Len(bcTried) = MaxUsers
    /\ bcSent < Len(bcTried)
    /\ msgNo > bcMsg

\* The admin has no send target, is not in broadcast mode and is not waited
\* on for a user id.
NoModeArmed ==
    /\ ADMIN_SEND_TARGET = {}
    /\ ~ADMIN_BROADCAST_MODE
    /\ ~ADMIN_WAITING_TARGET_USER

\* C37: leaving the admin panel and entering it disarm every mode: after
\* admin_exit_panel and after cmd_admin_panel there is no send target, no
\* broadcast mode and no wait for a user id, and a message that comes while
\* nothing is armed is copied to nobody and starts no broadcast.
\* /cancel_send clears the send target and the wait for a user id and leaves
\* broadcast mode and panel mode as they are; /cancel_broadcast clears
\* broadcast mode and leaves the other three as they are.
C37_PanelDisarmsModes ==
    [][/\ (admin_exit_panel \/ cmd_admin_panel) => NoModeArmed'
       /\ (NoModeArmed /\ msgNo' = msgNo + 1) =>
              /\ sendLog' = sendLog
              /\ ~BroadcastStarted
              /\ NoModeArmed'
       /\ admin_cancel_send =>
              /\ ADMIN_SEND_TARGET' = {}
              /\ ~ADMIN_WAITING_TARGET_USER'
              /\ UNCHANGED <<ADMIN_BROADCAST_MODE, ADMIN_PANEL_MODE>>
       /\ admin_cancel_broadcast =>
              /\ ~ADMIN_BROADCAST_MODE'
              /\ UNCHANGED <<ADMIN_SEND_TARGET, ADMIN_WAITING_TARGET_USER,
                             ADMIN_PANEL_MODE>>]_vars

\* The admin left the panel with a send target and broadcast mode armed, and
\* the text that came last went to nobody.
C37_Witness ==
    /\ lastClear.by = "admin_exit_panel"
    /\ lastClear.target
    /\ lastClear.broadcast
    /\ NoModeArmed
    /\ msgKind = "text"
    /\ sendLog = <<>>
    /\ bcPc = "idle"

-----------------------------------------------------------------------------
(* Properties of handle_send_referat *)

\* The value is an integer: a string int() reads as a whole number.  The
\* requests hold no whole number as a JSON number.
IsInteger(v) ==
    /\ v.t = "str"
    /\ Strip(v.s) # <<>>
    /\ \A i \in 1..Len(Strip(v.s)) : IsDigit(Strip(v.s)[i])

\* The request is a JSON object that is not authorised or not complete.
Refused ==
    /\ request.json = "object"
    /\ \/ ~request.token
       \/ ~Truthy(TelegramUserId(request))
       \/ ~Truthy(Topic(request))
       \/ ~Truthy(Content(request))
       \/ ~IsInteger(TelegramUserId(request))

\* No document was built, no service called, no file made, no message sent.
NothingDone ==
    /\ buildResult = "none"
    /\ injPc = "idle"
    /\ nSubmit = 0
    /\ nPoll = 0
    /\ trCalls = 0
    /\ ~fileExists
    /\ file_path = None_
    /\ sentDocs = <<>>

\* C38: a document is built and sent only for an authorised and complete
\* request: a request with a wrong token, without telegramUserId, topic or
\* content, or with a telegramUserId that is no integer is answered with 403
\* or 400 and nothing is built, called, created or sent; an accepted request
\* has one build and at most one document sent.
C38_OnlyAuthorisedCompleteRequests ==
    hpc # "idle" =>
        /\ Refused => hpc = "done" /\ response \in {403, 400} /\ NothingDone
        /\ Len(sentDocs) <= 1
        /\ (request.json = "object" /\ ~Refused /\ hpc = "done") =>
              buildResult \in {"returned", "raised"}

-----------------------------------------------------------------------------
(* Properties of _deapi_poll_result *)

\* The fields of a status response a result can come in.
ResultFields(resp) == {resp.result_url, resp.result, resp.preview}

\* C39: a status poll finds the image URL whenever the response carries one:
\* if result_url, result or preview of the response holds an HTTP(S) URL, the
\* iteration returns an HTTP(S) URL out of these fields, whatever the other
\* two fields hold.
C39_PollFindsCarriedUrl ==
    (pollOut # NoOutcome /\ pollResp.kind = "ok"
        /\ \E f \in ResultFields(pollResp) : HttpUrl(f)) =>
        /\ pollOut.act = "return"
        /\ pollOut.value \in ResultFields(pollResp)
        /\ HttpUrl(pollOut.value)

====
